---- MODULE Spec2Model ----
(***************************************************************************)
(* The backtesting driver (Backtester), the indicator engine               *)
(* (MarketAnalyzer) and the risk controller (RiskManager) of               *)
(* master-agent-project as one state machine.                              *)
(*                                                                         *)
(* Numbers.  Prices are integers.  Money (capital, pnl, balances) and      *)
(* position sizes are kept in units of 1/Scale; a division whose result    *)
(* is stored in those units truncates toward zero.  Ratios that the code   *)
(* only compares or reports (confidence, strength, RSI, return            *)
(* percentages, drawdowns) are exact pairs <<numerator, denominator>>;     *)
(* a denominator of 0 stands for the float NaN.                            *)
(***************************************************************************)
EXTENDS Integers, Sequences, FiniteSets, TLC

(* ------------------------------ bounds -------------------------------- *)

\* Units per 1.0 of money and of position size.
Scale == 100
\* Bars that follow the 20-bar history of a generated series.
MaxTail == 3
\* Largest wall-clock reading.
MaxClock == 1
\* run_backtest calls per behaviour.
MaxRuns == 2
\* The configured max_positions (config key, default 5).
MaxPositions == 1
\* update_metrics calls on a RiskManager per behaviour.
MaxUpdates == 3
\* Longest trade history given to _calculate_trade_metrics.
MaxTrades == 3
\* Agents constructed by a MasterAgent per behaviour.
MaxAgents == 3
\* Longest generated price history given to a TradingAgent.
MaxHistory == 3
\* Messages given to a BTCPriceMonitor per behaviour.
MaxMessages == 5
\* The entries a BTCPriceMonitor keeps: 1000 in the source, where the
\* eviction tests only len(price_history) > max_history_size.
max_history_size == 3

\* Direct calls of the driver's methods before the first run.
MaxCalls == MaxPositions + 2

(* --------------------------- configuration ---------------------------- *)

DefaultInitialCapital == 500
StopLossPct == 2
TakeProfitPct == 3
MinConfidence == <<7, 10>>
MinDataPoints == 20
RsiPeriod == 14
ShortMaPeriod == 9
LongMaPeriod == 21
RocLookback == 20
RocBars == 5
VolumeWindow == 20

\* RiskManager configuration and the fixed Kelly inputs.
PositionSizing == 1
MaxPositionSize == 1000
MaxDailyLoss == 2
MaxDrawdown == 15
InitialBalance == 500
WinRatePct == 55
WinLossRatioTenths == 15

initial_capital == DefaultInitialCapital * Scale

(* ----------------------------- arithmetic ----------------------------- *)

Abs(x) == IF x < 0 THEN -x ELSE x

Min2(a, b) == IF b < a THEN b ELSE a

Max2(a, b) == IF b > a THEN b ELSE a

\* a / b for b > 0, truncated toward zero.
Quot(a, b) == IF a >= 0 THEN a \div b ELSE -((-a) \div b)

RECURSIVE Gcd(_, _)
Gcd(a, b) == IF b = 0 THEN a ELSE Gcd(b, a % b)

\* The exact ratio n / d in lowest terms, d >= 0; <<0, 0>> is NaN (0/0).
Rat(n, d) ==
    IF d = 0 THEN <<0, 0>>
    ELSE LET g == Gcd(Abs(n), Abs(d))
             s == IF d < 0 THEN -1 ELSE 1
         IN  <<s * (n \div g), s * (d \div g)>>

IsNaN(r) == r[2] = 0

RatMul(r, s) == Rat(r[1] * s[1], r[2] * s[2])

\* r > s on exact pairs with non-negative denominators; false on NaN.
RatGt(r, s) == ~IsNaN(r) /\ ~IsNaN(s) /\ r[1] * s[2] > s[1] * r[2]

RatLt(r, s) == RatGt(s, r)

\* min(r, c) for an integer c.
RatCap(r, c) == IF r[1] \div r[2] >= c THEN <<c, 1>> ELSE r

RECURSIVE SumSeq(_)
SumSeq(s) == IF s = <<>> THEN 0 ELSE Head(s) + SumSeq(Tail(s))

\* The Python slice s[-n:].
LastN(s, n) == IF Len(s) <= n THEN s ELSE SubSeq(s, Len(s) - n + 1, Len(s))

(* ---------------------------- RiskManager ----------------------------- *)

\* Kelly fraction in thousandths: f = (p*b - (1-p)) / b, halved, clamped.
KellyFraction ==
    LET f == Quot((WinRatePct * WinLossRatioTenths - (100 - WinRatePct) * 10) * 1000,
                  WinLossRatioTenths * 100)
        half == Quot(f, 2)
    IN  Max2(0, Min2(half, 1000))

\* A size that divides by the signed price difference.
SizeRatioSigned(account_balance, entry_price, stop_loss) ==
    LET price_risk == entry_price - stop_loss
    IN  IF price_risk = 0
        THEN <<0, 1>>
        ELSE RatCap(RatMul(Rat(account_balance * PositionSizing, 100 * price_risk),
                           Rat(KellyFraction, 1000)),
                    MaxPositionSize * Scale)

\* A size without the test for a zero price risk: the float quotient is
\* infinite and the cap answers.
SizeRatioUnguarded(account_balance, entry_price, stop_loss) ==
    LET price_risk == Abs(entry_price - stop_loss)
    IN  IF price_risk = 0
        THEN <<MaxPositionSize * Scale, 1>>
        ELSE RatCap(RatMul(Rat(account_balance * PositionSizing, 100 * price_risk),
                           Rat(KellyFraction, 1000)),
                    MaxPositionSize * Scale)

\* calculate_position_size as an exact ratio, in units of 1/Scale:
\* min(risk_amount / price_risk * kelly_fraction, max_position_size).
SizeRatio(account_balance, entry_price, stop_loss) ==
    LET price_risk == Abs(entry_price - stop_loss)
    IN  IF price_risk = 0
        THEN <<0, 1>>
        ELSE RatCap(RatMul(Rat(account_balance * PositionSizing, 100 * price_risk),
                           Rat(KellyFraction, 1000)),
                    MaxPositionSize * Scale)

\* The size as the driver keeps it, in whole units of 1/Scale.
CalculatePositionSize(account_balance, entry_price, stop_loss) ==
    LET size == SizeRatio(account_balance, entry_price, stop_loss)
    IN  Quot(size[1], size[2])

NewRiskManager ==
    [current_balance |-> InitialBalance * Scale,
     peak_balance    |-> InitialBalance * Scale,
     daily_losses    |-> 0]

Invalid(reason) == [is_valid |-> FALSE, reason |-> reason, suggested_size |-> <<0, 1>>]

RequiredParams == {"account_balance", "entry_price", "stop_loss"}

\* A validation that tests the daily losses before the drawdown.
ValidateTradeDailyFirst(rm, params) ==
    IF rm.daily_losses * 100 >= rm.peak_balance * MaxDailyLoss
    THEN Invalid("Daily loss limit reached")
    ELSE IF (rm.peak_balance - rm.current_balance) * 100 >= MaxDrawdown * rm.peak_balance
    THEN Invalid("Maximum drawdown reached")
    ELSE IF ~(RequiredParams \subseteq DOMAIN params)
    THEN Invalid("Missing required parameters")
    ELSE LET size == SizeRatio(params.account_balance, params.entry_price,
                               params.stop_loss)
         IN  IF size[1] <= 0
             THEN Invalid("Invalid position size calculated")
             ELSE [is_valid |-> TRUE, reason |-> "Trade validated", suggested_size |-> size]

\* A validation that lets daily losses equal to the limit through.
ValidateTradeDailyStrict(rm, params) ==
    IF (rm.peak_balance - rm.current_balance) * 100 >= MaxDrawdown * rm.peak_balance
    THEN Invalid("Maximum drawdown reached")
    ELSE IF rm.daily_losses * 100 > rm.peak_balance * MaxDailyLoss
    THEN Invalid("Daily loss limit reached")
    ELSE IF ~(RequiredParams \subseteq DOMAIN params)
    THEN Invalid("Missing required parameters")
    ELSE LET size == SizeRatio(params.account_balance, params.entry_price,
                               params.stop_loss)
         IN  IF size[1] <= 0
             THEN Invalid("Invalid position size calculated")
             ELSE [is_valid |-> TRUE, reason |-> "Trade validated", suggested_size |-> size]

\* A validation that computes the size before it looks for the parameters:
\* a missing stop reads as None and the size of an unknown risk as 0.
ValidateTradeSizeFirst(rm, params) ==
    IF (rm.peak_balance - rm.current_balance) * 100 >= MaxDrawdown * rm.peak_balance
    THEN Invalid("Maximum drawdown reached")
    ELSE IF rm.daily_losses * 100 >= rm.peak_balance * MaxDailyLoss
    THEN Invalid("Daily loss limit reached")
    ELSE IF ~(RequiredParams \subseteq DOMAIN params)
    THEN Invalid("Invalid position size calculated")
    ELSE LET size == SizeRatio(params.account_balance, params.entry_price,
                               params.stop_loss)
         IN  IF size[1] <= 0
             THEN Invalid("Invalid position size calculated")
             ELSE [is_valid |-> TRUE, reason |-> "Trade validated", suggested_size |-> size]

\* validate_trade: drawdown, daily losses, parameters, size, in this order.
ValidateTrade(rm, params) ==
    IF (rm.peak_balance - rm.current_balance) * 100 >= MaxDrawdown * rm.peak_balance
    THEN Invalid("Maximum drawdown reached")
    ELSE IF rm.daily_losses * 100 >= rm.peak_balance * MaxDailyLoss
    THEN Invalid("Daily loss limit reached")
    ELSE IF ~(RequiredParams \subseteq DOMAIN params)
    THEN Invalid("Missing required parameters")
    ELSE LET size == SizeRatio(params.account_balance, params.entry_price,
                               params.stop_loss)
         IN  IF size[1] <= 0
             THEN Invalid("Invalid position size calculated")
             ELSE [is_valid |-> TRUE, reason |-> "Trade validated", suggested_size |-> size]

\* An update that lets the peak follow the balance down.
UpdateMetricsPeakFollows(rm, trade) ==
    [current_balance |-> rm.current_balance + trade.pnl,
     peak_balance    |-> rm.current_balance + trade.pnl,
     daily_losses    |-> IF trade.pnl < 0 THEN rm.daily_losses + Abs(trade.pnl)
                         ELSE rm.daily_losses]

\* update_metrics (record_trade_result).
UpdateMetrics(rm, trade) ==
    [current_balance |-> rm.current_balance + trade.pnl,
     peak_balance    |-> Max2(rm.peak_balance, rm.current_balance + trade.pnl),
     daily_losses    |-> IF trade.pnl < 0 THEN rm.daily_losses + Abs(trade.pnl)
                         ELSE rm.daily_losses]

(* --------------------------- MarketAnalyzer --------------------------- *)

AllColumns == {"open", "high", "low", "close", "volume"}

Closes(rows) == [k \in 1..Len(rows) |-> rows[k].close]

Volumes(rows) == [k \in 1..Len(rows) |-> rows[k].volume]

\* The last value of the simple moving average; defined is FALSE for the
\* empty array returned when the data is shorter than the period.
CalculateSMA(prices, period) ==
    IF Len(prices) < period
    THEN [defined |-> FALSE, sum |-> 0, period |-> period]
    ELSE [defined |-> TRUE, sum |-> SumSeq(LastN(prices, period)), period |-> period]

\* Prices are non-negative, so a zero long average means a zero short
\* average and the strength is 0/0.
AnalyzeTrend(prices) ==
    LET short_ma == CalculateSMA(prices, ShortMaPeriod)
        long_ma  == CalculateSMA(prices, LongMaPeriod)
    IN  IF short_ma.defined /\ long_ma.defined
        THEN LET trend_strength ==
                     Rat((short_ma.sum * LongMaPeriod - long_ma.sum * ShortMaPeriod) * 100,
                         long_ma.sum * ShortMaPeriod)
                 trend == IF RatGt(trend_strength, <<1, 1>>) THEN "STRONG_UPTREND"
                          ELSE IF RatGt(trend_strength, <<0, 1>>) THEN "WEAK_UPTREND"
                          ELSE IF RatGt(trend_strength, <<-1, 1>>) THEN "WEAK_DOWNTREND"
                          ELSE "STRONG_DOWNTREND"
             IN  [direction |-> trend,
                  strength  |-> <<Abs(trend_strength[1]), trend_strength[2]>>]
        ELSE [direction |-> "NEUTRAL", strength |-> <<0, 1>>]

Deltas(prices) == [k \in 1..(Len(prices) - 1) |-> prices[k + 1] - prices[k]]

\* raises: prices[-20] is an IndexError on fewer than RocLookback prices.
CalculateMomentum(prices) ==
    LET deltas == Deltas(prices)
        gains  == [k \in 1..Len(deltas) |-> IF deltas[k] > 0 THEN deltas[k] ELSE 0]
        losses == [k \in 1..Len(deltas) |-> IF deltas[k] < 0 THEN -deltas[k] ELSE 0]
        n      == Len(LastN(deltas, RsiPeriod))
        g      == SumSeq(LastN(gains, RsiPeriod))
        l      == SumSeq(LastN(losses, RsiPeriod))
        rsi    == IF n = 0 THEN <<0, 0>>
                  ELSE IF l = 0 THEN <<100, 1>>
                  ELSE Rat(100 * g, g + l)
    IN  IF Len(prices) < RocLookback
        THEN [raises |-> TRUE, rsi |-> rsi, roc |-> <<0, 0>>]
        ELSE [raises |-> FALSE, rsi |-> rsi,
              roc |-> Rat((prices[Len(prices)] - prices[Len(prices) - RocLookback + 1]) * 100,
                          prices[Len(prices) - RocLookback + 1])]

AnalyzeVolume(volume) ==
    LET window       == LastN(volume, VolumeWindow)
        volume_ratio == Rat(volume[Len(volume)] * Len(window), SumSeq(window))
    IN  [volume_ratio |-> volume_ratio,
         volume_trend |-> IF RatGt(volume_ratio, <<3, 2>>) THEN "HIGH"
                          ELSE IF RatLt(volume_ratio, <<1, 2>>) THEN "LOW"
                          ELSE "NORMAL"]

\* Python's min(x, c): c when c < x, else x (so a NaN x stays NaN).
PyMin(x, c) == IF RatLt(c, x) THEN c ELSE x

IsUptrend(direction) == direction \in {"STRONG_UPTREND", "WEAK_UPTREND"}

IsDowntrend(direction) == direction \in {"STRONG_DOWNTREND", "WEAK_DOWNTREND"}

GenerateSignal(trend, momentum, volume_analysis) ==
    LET base == Rat(trend.strength[1], trend.strength[2] * 100)
        pick == IF IsUptrend(trend.direction) /\ RatLt(momentum.rsi, <<70, 1>>)
                THEN [signal |-> "BUY", confidence |-> base]
                ELSE IF IsDowntrend(trend.direction) /\ RatGt(momentum.rsi, <<30, 1>>)
                THEN [signal |-> "SELL", confidence |-> base]
                ELSE [signal |-> "NEUTRAL", confidence |-> <<0, 1>>]
        scaled == RatMul(pick.confidence, PyMin(volume_analysis.volume_ratio, <<2, 1>>))
    IN  [signal |-> pick.signal, confidence |-> PyMin(scaled, <<1, 1>>)]

\* An analysis whose exception leaves analyze_market.
AnalysisExceptReraises(raises, value) == IF raises THEN [raised |-> TRUE] ELSE value

\* try: value / except Exception: the ERROR result.
AnalysisExcept(raises, value) ==
    IF raises
    THEN [signal |-> "ERROR", confidence |-> <<0, 1>>, reason |-> "Analysis error"]
    ELSE value

\* analyze_market on the rows of a frame with the given columns; rm is the
\* analyzer's own RiskManager and clock the datetime.now() reading.  The
\* volatility figures (log returns, ATR, Bollinger bands) feed nothing that
\* is decided here; ATR raises KeyError on a frame without high or low, and
\* the indicators raise TypeError on a row whose prices are not numbers.
AnalyzeMarket(columns, rows, rm, clock) ==
    IF "close" \notin columns
    THEN [signal |-> "ERROR", confidence |-> <<0, 1>>,
          reason |-> "Missing required column: close"]
    ELSE IF "volume" \notin columns
    THEN [signal |-> "ERROR", confidence |-> <<0, 1>>,
          reason |-> "Missing required column: volume"]
    ELSE IF Len(rows) < MinDataPoints
    THEN [signal |-> "NEUTRAL", confidence |-> <<0, 1>>, reason |-> "Insufficient data"]
    ELSE LET trend    == AnalyzeTrend(Closes(rows))
             momentum == CalculateMomentum(Closes(rows))
             volume   == AnalyzeVolume(Volumes(rows))
             signal   == GenerateSignal(trend, momentum, volume)
             close    == rows[Len(rows)].close
             risk     == ValidateTrade(rm, [account_balance |-> rm.current_balance,
                                            entry_price |-> close,
                                            stop_loss |-> Quot(close * 95, 100)])
         IN  AnalysisExcept(
                 \/ \E k \in 1..Len(rows) : ~rows[k].numeric
                 \/ momentum.raises
                 \/ ~({"high", "low"} \subseteq columns),
                 [trend |-> trend, momentum |-> momentum, volume_analysis |-> volume,
                  timestamp |-> clock, signal |-> signal.signal,
                  confidence |-> signal.confidence, is_valid |-> risk.is_valid,
                  reason |-> risk.reason, suggested_size |-> risk.suggested_size])

(* ------------------ MarketAnalyzer (src/market_analyzer.py) ------------ *)

\* A classification whose bounds 1, 0 and -1 belong to the class above.
MA_AnalyzeTrendInclusive(prices) ==
    LET short_ma == CalculateSMA(prices, ShortMaPeriod)
        long_ma  == CalculateSMA(prices, LongMaPeriod)
    IN  IF ~short_ma.defined \/ ~long_ma.defined
        THEN [direction |-> "NEUTRAL", strength |-> <<0, 1>>]
        ELSE LET trend_strength ==
                     Rat((short_ma.sum * LongMaPeriod - long_ma.sum * ShortMaPeriod) * 100,
                         long_ma.sum * ShortMaPeriod)
                 trend == IF ~RatLt(trend_strength, <<1, 1>>) THEN "STRONG_UPTREND"
                          ELSE IF ~RatLt(trend_strength, <<0, 1>>) THEN "WEAK_UPTREND"
                          ELSE IF ~RatLt(trend_strength, <<-1, 1>>) THEN "WEAK_DOWNTREND"
                          ELSE "STRONG_DOWNTREND"
             IN  [direction |-> trend,
                  strength  |-> <<Abs(trend_strength[1]), trend_strength[2]>>]

\* analyze_trend of src/market_analyzer.py.
MA_AnalyzeTrend(prices) ==
    LET short_ma == CalculateSMA(prices, ShortMaPeriod)
        long_ma  == CalculateSMA(prices, LongMaPeriod)
    IN  IF ~short_ma.defined \/ ~long_ma.defined
        THEN [direction |-> "NEUTRAL", strength |-> <<0, 1>>]
        ELSE LET trend_strength ==
                     Rat((short_ma.sum * LongMaPeriod - long_ma.sum * ShortMaPeriod) * 100,
                         long_ma.sum * ShortMaPeriod)
                 trend == IF RatGt(trend_strength, <<1, 1>>) THEN "STRONG_UPTREND"
                          ELSE IF RatGt(trend_strength, <<0, 1>>) THEN "WEAK_UPTREND"
                          ELSE IF RatGt(trend_strength, <<-1, 1>>) THEN "WEAK_DOWNTREND"
                          ELSE "STRONG_DOWNTREND"
             IN  [direction |-> trend,
                  strength  |-> <<Abs(trend_strength[1]), trend_strength[2]>>]

\* _calculate_rsi(prices)[-1].  The last window of the convolution holds the
\* last RsiPeriod gains (all of them when there are RsiPeriod - 1), each
\* weighted 1 / RsiPeriod.  A mean loss of 0 is replaced by 1 in the
\* division: rs = avg_gain, rsi = 100 - 100 / (1 + avg_gain).
MA_CalculateRsi(prices) ==
    LET deltas == Deltas(prices)
        g == SumSeq(LastN([k \in 1..Len(deltas) |-> IF deltas[k] > 0 THEN deltas[k] ELSE 0],
                          RsiPeriod))
        l == SumSeq(LastN([k \in 1..Len(deltas) |-> IF deltas[k] < 0 THEN -deltas[k] ELSE 0],
                          RsiPeriod))
    IN  IF Len(prices) < RsiPeriod THEN <<0, 0>>
        ELSE IF l = 0 THEN Rat(100 * g, g + RsiPeriod)
        ELSE Rat(100 * g, g + l)

\* calculate_momentum of src/market_analyzer.py; a division by a zero price
\* gives inf or nan, both written <<0, 0>>.
MA_CalculateMomentum(prices) ==
    LET rsi == MA_CalculateRsi(prices)
    IN  [rsi        |-> rsi,
         overbought |-> RatGt(rsi, <<70, 1>>),
         oversold   |-> RatLt(rsi, <<30, 1>>),
         price_roc  |-> IF Len(prices) >= RocBars
                        THEN Rat((prices[Len(prices)] - prices[Len(prices) - RocBars + 1]) * 100,
                                 prices[Len(prices) - RocBars + 1])
                        ELSE <<0, 0>>]

\* analyze_volume of src/market_analyzer.py.
MA_AnalyzeVolume(columns, volume) ==
    IF "volume" \notin columns THEN [volume_signal |-> "NO_DATA"]
    ELSE LET window == LastN(volume, VolumeWindow)
             current_volume == volume[Len(volume)]
         IN  [volume_ratio |-> Rat(current_volume * Len(window), SumSeq(window)),
              volume_trend |->
                  IF current_volume * Len(window) * 2 > SumSeq(window) * 3 THEN "HIGH"
                  ELSE IF current_volume * Len(window) * 2 < SumSeq(window) THEN "LOW"
                  ELSE "NORMAL"]

\* A synthesis that takes an RSI of 70 for a buy and of 30 for a sell.
MA_GenerateSignalInclusive(trend, momentum, volume_analysis) ==
    LET base == Rat(trend.strength[1], trend.strength[2] * 100)
        pick == IF IsUptrend(trend.direction) /\ ~RatGt(momentum.rsi, <<70, 1>>)
                THEN [signal |-> "BUY", confidence |-> base]
                ELSE IF IsDowntrend(trend.direction) /\ ~RatLt(momentum.rsi, <<30, 1>>)
                THEN [signal |-> "SELL", confidence |-> base]
                ELSE [signal |-> "NEUTRAL", confidence |-> <<0, 1>>]
        scaled == RatMul(pick.confidence, PyMin(volume_analysis.volume_ratio, <<2, 1>>))
    IN  [signal |-> pick.signal, confidence |-> PyMin(scaled, <<1, 1>>)]

\* generate_signal of src/market_analyzer.py.
MA_GenerateSignal(trend, momentum, volume_analysis) ==
    LET volume_ratio == IF "volume_ratio" \in DOMAIN volume_analysis
                        THEN volume_analysis.volume_ratio ELSE <<1, 1>>
        base == Rat(trend.strength[1], trend.strength[2] * 100)
        pick == IF IsUptrend(trend.direction) /\ RatLt(momentum.rsi, <<70, 1>>)
                THEN [signal |-> "BUY", confidence |-> base]
                ELSE IF IsDowntrend(trend.direction) /\ RatGt(momentum.rsi, <<30, 1>>)
                THEN [signal |-> "SELL", confidence |-> base]
                ELSE [signal |-> "NEUTRAL", confidence |-> <<0, 1>>]
        scaled == RatMul(pick.confidence, PyMin(volume_ratio, <<2, 1>>))
    IN  [signal |-> pick.signal, confidence |-> PyMin(scaled, <<1, 1>>)]

\* The try block of analyze_market of src/market_analyzer.py with its except
\* branch.  The volatility figures (logs, standard deviations) give inf or
\* nan with a warning on a zero price and feed nothing that is decided
\* here; the indicators raise TypeError on a row whose prices are not
\* numbers.
MA_Analysis(columns, rows, clock) ==
    AnalysisExcept(
        \E k \in 1..Len(rows) : ~rows[k].numeric,
        LET trend    == MA_AnalyzeTrend(Closes(rows))
            momentum == MA_CalculateMomentum(Closes(rows))
            volume   == MA_AnalyzeVolume(columns, Volumes(rows))
            signal   == MA_GenerateSignal(trend, momentum, volume)
        IN  [trend |-> trend, momentum |-> momentum, volume_analysis |-> volume,
             timestamp |-> clock, signal |-> signal.signal,
             confidence |-> signal.confidence])

\* analyze_market with the length test before the column tests.
MA_AnalyzeMarketLengthFirst(columns, rows, clock) ==
    IF Len(rows) < MinDataPoints
    THEN [signal |-> "NEUTRAL", confidence |-> <<0, 1>>, reason |-> "Insufficient data"]
    ELSE IF "close" \notin columns
    THEN [signal |-> "ERROR", confidence |-> <<0, 1>>,
          reason |-> "Missing required column: close"]
    ELSE IF "volume" \notin columns
    THEN [signal |-> "ERROR", confidence |-> <<0, 1>>,
          reason |-> "Missing required column: volume"]
    ELSE MA_Analysis(columns, rows, clock)

\* analyze_market without the length test; rsi[-1] of an empty frame is an
\* IndexError.
MA_AnalyzeMarketAnyLength(columns, rows, clock) ==
    IF "close" \notin columns
    THEN [signal |-> "ERROR", confidence |-> <<0, 1>>,
          reason |-> "Missing required column: close"]
    ELSE IF "volume" \notin columns
    THEN [signal |-> "ERROR", confidence |-> <<0, 1>>,
          reason |-> "Missing required column: volume"]
    ELSE IF rows = <<>>
    THEN AnalysisExcept(TRUE, <<>>)
    ELSE MA_Analysis(columns, rows, clock)

\* analyze_market of src/market_analyzer.py.
MA_AnalyzeMarket(columns, rows, clock) ==
    IF "close" \notin columns
    THEN [signal |-> "ERROR", confidence |-> <<0, 1>>,
          reason |-> "Missing required column: close"]
    ELSE IF "volume" \notin columns
    THEN [signal |-> "ERROR", confidence |-> <<0, 1>>,
          reason |-> "Missing required column: volume"]
    ELSE IF Len(rows) < MinDataPoints
    THEN [signal |-> "NEUTRAL", confidence |-> <<0, 1>>, reason |-> "Insufficient data"]
    ELSE MA_Analysis(columns, rows, clock)

(* ------------------------------ Backtester ---------------------------- *)

VARIABLES
    pc,               \* idle | process | analyze | trade | metrics | report | done | failed
    data,             \* the rows of the frame given to run_backtest
    i,                \* loop index of run_backtest
    current_capital,
    positions,
    trades_history,
    equity_curve,
    drawdowns,
    risk_manager,     \* the driver's RiskManager
    analysis,         \* the analysis of the current iteration
    last_call,        \* the last method call on the driver: arguments, result
    report,           \* what the last run_backtest call returned, if it has
    prev_report,      \* what the run before it returned
    now,              \* the wall clock read by datetime.now()
    runs,             \* run_backtest calls so far
    calls,            \* direct method calls so far
    opened,           \* positions appended since the last reset
    pnls,             \* the pnl of each update_metrics call on a RiskManager
    active_agents,    \* a MasterAgent's registry: name -> agent
    created,          \* agents constructed so far; an agent's id is its rank
    last_price,       \* a BTCPriceMonitor's last price, None before the first
    price_history,    \* its list of price entries
    messages          \* the messages given to its process_message, in order

vars == <<pc, data, i, current_capital, positions, trades_history, equity_curve,
          drawdowns, risk_manager, analysis, last_call, report, prev_report, now,
          runs, calls, opened, pnls, active_agents, created, last_price, price_history,
          messages>>

NoAnalysis == [signal |-> "NONE", confidence |-> <<0, 1>>]

NoCall == [op |-> "none"]

NoReport == [made |-> FALSE]

(* The frames.  A bar is a row; its name is its index label. *)

Bar(high, low, close, volume) ==
    [open |-> close, high |-> high, low |-> low, close |-> close, volume |-> volume,
     numeric |-> TRUE]

FlatBar == Bar(300, 300, 300, 2)

WideBar == Bar(400, 100, 200, 1)

ZeroBar == Bar(0, 0, 0, 2)

BarSet == {FlatBar, WideBar, ZeroBar}

\* A row whose open, high, low and close hold text instead of numbers; the
\* numbers in it stand for nothing.
CorruptBar == [Bar(0, 0, 0, 2) EXCEPT !.numeric = FALSE]


\* Twenty bars of history: a rise with pullbacks, a fall with rebounds.
UpHistory ==
    [k \in 1..20 |-> IF k <= 12 THEN Bar(100, 100, 100, 1)
                     ELSE IF k % 2 = 1 THEN Bar(300, 300, 300, 1)
                     ELSE Bar(200, 200, 200, 1)]

DownHistory ==
    [k \in 1..20 |-> IF k <= 12 THEN Bar(400, 400, 400, 1)
                     ELSE IF k % 2 = 1 THEN Bar(100, 100, 100, 1)
                     ELSE Bar(200, 200, 200, 1)]

Histories == {<<>>, UpHistory, DownHistory}

NumericTails == UNION {[1..n -> BarSet] : n \in 0..MaxTail}

\* After a corrupt row every analysis is an ERROR, so it comes last.
Tails == NumericTails \cup {Append(t, CorruptBar) : t \in {u \in NumericTails : Len(u) < MaxTail}}

\* A frame's rows carry their index label in name.
Named(rows) == [k \in 1..Len(rows) |-> [name |-> k - 1] @@ rows[k]]

SeriesSet == {Named(h \o t) : h \in Histories, t \in Tails}

ExitPrices == {250, 350}

SignalInputs == {"BUY", "SELL", "NEUTRAL", "ERROR"}

ConfidenceInputs == {<<0, 1>>, <<7, 10>>, <<4, 5>>}

(* The driver's methods. *)

\* A reset that leaves the capital as it is.
ResetStateKeepsCapital ==
    [current_capital |-> current_capital,
     positions       |-> <<>>,
     trades_history  |-> <<>>,
     equity_curve    |-> <<initial_capital>>,
     drawdowns       |-> <<>>]

ResetState ==
    [current_capital |-> initial_capital,
     positions       |-> <<>>,
     trades_history  |-> <<>>,
     equity_curve    |-> <<initial_capital>>,
     drawdowns       |-> <<>>]

\* A gate that lets a confidence equal to the minimum through.
ShouldExecuteTradeAtLeast(open_positions, a) ==
    IF Len(open_positions) >= MaxPositions
    THEN FALSE
    ELSE a.signal \in {"BUY", "SELL"} /\ ~RatLt(a.confidence, MinConfidence)

ShouldExecuteTrade(open_positions, a) ==
    IF Len(open_positions) >= MaxPositions
    THEN FALSE
    ELSE a.signal \in {"BUY", "SELL"} /\ RatGt(a.confidence, MinConfidence)

CalculateStopLoss(signal, entry_price) ==
    IF signal = "LONG"
    THEN Quot(entry_price * (100 - StopLossPct), 100)
    ELSE Quot(entry_price * (100 + StopLossPct), 100)

CalculateTakeProfit(signal, entry_price) ==
    IF signal = "LONG"
    THEN Quot(entry_price * (100 + TakeProfitPct), 100)
    ELSE Quot(entry_price * (100 - TakeProfitPct), 100)

\* The position _execute_trade appends.
ExecuteTrade(a, current_bar, capital) ==
    LET stop_loss == CalculateStopLoss(a.signal, current_bar.close)
    IN  [type          |-> a.signal,
         entry_price   |-> current_bar.close,
         size          |-> CalculatePositionSize(capital, current_bar.close, stop_loss),
         stop_loss     |-> stop_loss,
         take_profit   |-> CalculateTakeProfit(a.signal, current_bar.close),
         entry_time    |-> current_bar.name,
         entry_capital |-> capital,
         metadata      |-> [analysis |-> a]]

HitStopLoss(position, current_bar) ==
    IF position.type = "LONG"
    THEN current_bar.low <= position.stop_loss
    ELSE current_bar.high >= position.stop_loss

HitTakeProfit(position, current_bar) ==
    IF position.type = "LONG"
    THEN current_bar.high >= position.take_profit
    ELSE current_bar.low <= position.take_profit

\* A removal that removes nothing.
RemoveNothing(s, x) == s

\* list.remove: the first element equal to x goes.
RECURSIVE Remove(_, _)
Remove(s, x) ==
    IF s = <<>> THEN <<>>
    ELSE IF Head(s) = x THEN Tail(s)
    ELSE <<Head(s)>> \o Remove(Tail(s), x)

\* A pnl that takes a BUY position for a long one.
PnlBySignal(position, exit_price) ==
    IF position.type \in {"LONG", "BUY"}
    THEN (exit_price - position.entry_price) * position.size
    ELSE (position.entry_price - exit_price) * position.size

Pnl(position, exit_price) ==
    IF position.type = "LONG"
    THEN (exit_price - position.entry_price) * position.size
    ELSE (position.entry_price - exit_price) * position.size

\* The account state of the driver that closing and opening touch.
Account == [current_capital |-> current_capital, positions |-> positions,
            trades_history |-> trades_history]

\* A close that records the trade and leaves the capital as it is.
ClosePositionKeepsCapital(acct, position, exit_price, reason, clock) ==
    LET pnl == Pnl(position, exit_price)
        trade_record ==
            [type        |-> position.type,
             entry_price |-> position.entry_price,
             exit_price  |-> exit_price,
             size        |-> position.size,
             pnl         |-> pnl,
             return_pct  |-> Rat(pnl * 100, position.entry_capital),
             entry_time  |-> position.entry_time,
             exit_time   |-> clock,
             exit_reason |-> reason,
             metadata    |-> position.metadata]
    IN  [current_capital |-> acct.current_capital,
         positions       |-> Remove(acct.positions, position),
         trades_history  |-> Append(acct.trades_history, trade_record)]

ClosePosition(acct, position, exit_price, reason, clock) ==
    LET pnl == Pnl(position, exit_price)
        trade_record ==
            [type        |-> position.type,
             entry_price |-> position.entry_price,
             exit_price  |-> exit_price,
             size        |-> position.size,
             pnl         |-> pnl,
             return_pct  |-> Rat(pnl * 100, position.entry_capital),
             entry_time  |-> position.entry_time,
             exit_time   |-> clock,
             exit_reason |-> reason,
             metadata    |-> position.metadata]
    IN  [current_capital |-> acct.current_capital + pnl,
         positions       |-> Remove(acct.positions, position),
         trades_history  |-> Append(acct.trades_history, trade_record)]

\* A loop body that closes at the bar's close instead of the level hit.
ProcessPositionAtClose(acct, position, current_bar, clock) ==
    IF HitStopLoss(position, current_bar)
    THEN ClosePosition(acct, position, current_bar.close, "Stop Loss", clock)
    ELSE IF HitTakeProfit(position, current_bar)
    THEN ClosePosition(acct, position, current_bar.close, "Take Profit", clock)
    ELSE acct

\* A loop body that tests the target before the stop.
ProcessPositionTargetFirst(acct, position, current_bar, clock) ==
    IF HitTakeProfit(position, current_bar)
    THEN ClosePosition(acct, position, position.take_profit, "Take Profit", clock)
    ELSE IF HitStopLoss(position, current_bar)
    THEN ClosePosition(acct, position, position.stop_loss, "Stop Loss", clock)
    ELSE acct

\* The body of the loop of _process_open_positions.
ProcessPosition(acct, position, current_bar, clock) ==
    IF HitStopLoss(position, current_bar)
    THEN ClosePosition(acct, position, position.stop_loss, "Stop Loss", clock)
    ELSE IF HitTakeProfit(position, current_bar)
    THEN ClosePosition(acct, position, position.take_profit, "Take Profit", clock)
    ELSE acct

\* The loop over the copy positions[:], from its k-th element on.
RECURSIVE ProcessFrom(_, _, _, _, _)
ProcessFrom(acct, snapshot, k, current_bar, clock) ==
    IF k > Len(snapshot) THEN acct
    ELSE ProcessFrom(ProcessPosition(acct, snapshot[k], current_bar, clock),
                     snapshot, k + 1, current_bar, clock)

\* A loop over the list itself: after a removal the index moves past the
\* position that took the removed one's place.
RECURSIVE ProcessLive(_, _, _, _)
ProcessLive(acct, k, current_bar, clock) ==
    IF k > Len(acct.positions) THEN acct
    ELSE ProcessLive(ProcessPosition(acct, acct.positions[k], current_bar, clock),
                     k + 1, current_bar, clock)

ProcessOpenPositionsLive(acct, current_bar, clock) ==
    ProcessLive(acct, 1, current_bar, clock)

ProcessOpenPositions(acct, current_bar, clock) ==
    ProcessFrom(acct, acct.positions, 1, current_bar, clock)

RECURSIVE MaxSeq(_)
MaxSeq(s) == IF Len(s) = 1 THEN s[1] ELSE Max2(s[1], MaxSeq(Tail(s)))

RECURSIVE RatMaxSeq(_)
RatMaxSeq(s) ==
    IF Len(s) = 1 THEN s[1]
    ELSE LET m == RatMaxSeq(Tail(s)) IN IF RatGt(m, s[1]) THEN m ELSE s[1]

\* A drawdown measured from the first entry of the curve.
CurrentDrawdownFromStart(curve, capital) == Rat(curve[1] - capital, curve[1])

\* The drawdown _update_metrics appends after appending capital.
CurrentDrawdown(curve, capital) ==
    LET peak_capital == MaxSeq(curve) IN Rat(peak_capital - capital, peak_capital)

\* np.mean of the picked pnl values, 0 when there are none.
MeanPnl(picked) ==
    IF picked = <<>> THEN <<0, 1>> ELSE Rat(SumSeq(picked), Len(picked))

IsWin(pnl) == pnl > 0

IsLoss(pnl) == pnl < 0

Pnls(history) == [k \in 1..Len(history) |-> history[k].pnl]

MinSeq(s) == CHOOSE x \in {s[k] : k \in 1..Len(s)} : \A k \in 1..Len(s) : x <= s[k]

\* Trade metrics whose largest win is taken over the winning trades and
\* largest loss over the losing trades.
CalculateTradeMetricsBySide(history) ==
    LET wins   == {k \in 1..Len(history) : history[k].pnl > 0}
        losses == {k \in 1..Len(history) : history[k].pnl < 0}
    IN  [win_rate     |-> IF history = <<>> THEN <<0, 1>>
                          ELSE Rat(Cardinality(wins), Len(history)),
         avg_win      |-> MeanPnl(SelectSeq(Pnls(history), IsWin)),
         avg_loss     |-> MeanPnl(SelectSeq(Pnls(history), IsLoss)),
         largest_win  |-> IF wins = {} THEN 0
                          ELSE MaxSeq([k \in 1..Len(history) |-> Max2(history[k].pnl, 0)]),
         largest_loss |-> IF losses = {} THEN 0
                          ELSE MinSeq([k \in 1..Len(history) |-> Min2(history[k].pnl, 0)])]

\* _calculate_trade_metrics
CalculateTradeMetrics(history) ==
    IF history = <<>>
    THEN [win_rate |-> <<0, 1>>, avg_win |-> <<0, 1>>, avg_loss |-> <<0, 1>>,
          largest_win |-> 0, largest_loss |-> 0]
    ELSE [win_rate     |-> Rat(Cardinality({k \in 1..Len(history) : history[k].pnl > 0}),
                               Len(history)),
          avg_win      |-> MeanPnl(SelectSeq(Pnls(history), IsWin)),
          avg_loss     |-> MeanPnl(SelectSeq(Pnls(history), IsLoss)),
          largest_win  |-> MaxSeq(Pnls(history)),
          largest_loss |-> MinSeq(Pnls(history))]

\* The report without its Sharpe, Sortino, VaR and expected-shortfall
\* figures, which are functions of the return_pct values in trades.
GenerateBacktestReport ==
    [made |-> TRUE,
     overview |->
        [initial_capital  |-> initial_capital,
         final_capital    |-> current_capital,
         total_return_pct |-> Rat((current_capital - initial_capital) * 100,
                                  initial_capital),
         total_trades     |-> Len(trades_history),
         winning_trades   |-> Cardinality({k \in 1..Len(trades_history) :
                                              trades_history[k].pnl > 0})],
     risk_metrics |->
        [max_drawdown |-> IF drawdowns = <<>> THEN <<0, 1>> ELSE RatMaxSeq(drawdowns)],
     trade_metrics |-> CalculateTradeMetrics(trades_history),
     equity_curve |-> equity_curve,
     drawdowns    |-> drawdowns,
     trades       |-> trades_history]

(* ------------------------------- actions ------------------------------ *)

Init ==
    /\ pc = "idle"
    /\ data = <<>>
    /\ i = 0
    /\ current_capital = initial_capital
    /\ positions = <<>>
    /\ trades_history = <<>>
    /\ equity_curve = <<initial_capital>>
    /\ drawdowns = <<>>
    /\ risk_manager = NewRiskManager
    /\ analysis = NoAnalysis
    /\ last_call = NoCall
    /\ report = NoReport
    /\ prev_report = NoReport
    /\ now = 0
    /\ runs = 0
    /\ calls = 0
    /\ opened = 0
    /\ pnls = <<>>
    /\ active_agents = <<>>
    /\ created = 0
    /\ last_price = [none |-> TRUE]    \* None
    /\ price_history = <<>>
    /\ messages = <<>>

\* Backtester(config) again: a fresh driver for the next run.
NewBacktester ==
    /\ pc \in {"done", "failed"}
    /\ runs < MaxRuns
    /\ pc' = "idle"
    /\ i' = 0
    /\ current_capital' = initial_capital
    /\ positions' = <<>>
    /\ trades_history' = <<>>
    /\ equity_curve' = <<initial_capital>>
    /\ drawdowns' = <<>>
    /\ risk_manager' = NewRiskManager
    /\ analysis' = NoAnalysis
    /\ last_call' = NoCall
    /\ opened' = 0
    /\ UNCHANGED <<last_price, price_history, messages, active_agents, created, pnls, data, report, prev_report, now, runs, calls>>

\* run_backtest(d) up to the first loop test.  A later run repeats the frame,
\* and a driver whose methods were called directly is run on an empty or
\* single-row frame.
RunBacktest(d) ==
    /\ pc \in {"idle", "done", "failed"}
    /\ runs < MaxRuns
    /\ runs > 0 => d = data
    /\ calls > 0 => Len(d) <= 1
    /\ data' = d
    /\ i' = 0
    /\ current_capital' = ResetState.current_capital
    /\ positions' = ResetState.positions
    /\ trades_history' = ResetState.trades_history
    /\ equity_curve' = ResetState.equity_curve
    /\ drawdowns' = ResetState.drawdowns
    /\ opened' = Len(ResetState.positions) + Len(ResetState.trades_history)
    /\ analysis' = NoAnalysis
    /\ last_call' = [op |-> "run_backtest"]
    /\ prev_report' = report
    /\ report' = NoReport
    /\ runs' = runs + 1
    /\ calls' = 0
    /\ pc' = IF 0 < Len(d) - 1 THEN "process" ELSE "report"
    /\ UNCHANGED <<last_price, price_history, messages, active_agents, created, pnls, risk_manager, now>>

\* next_bar = data.iloc[i+1]
NextBar == data[i + 2]

\* A slice that takes in the bar after index k as well.
CurrentDataWithNextBar(d, k) == SubSeq(d, 1, k + 2)

\* data.iloc[:k+1]
CurrentDataAt(d, k) == SubSeq(d, 1, k + 1)

\* current_data = data.iloc[:i+1]
CurrentData == CurrentDataAt(data, i)

\* A step of the loop raises: the exit tests compare the bar's high or low
\* with a price, and opening a trade multiplies the bar's close.
ProcessOpenPositionsRaises(open_positions, current_bar) ==
    open_positions # <<>> /\ ~current_bar.numeric

ExecuteTradeRaises(current_bar) == ~current_bar.numeric

StepRaises ==
    \/ pc = "process" /\ ProcessOpenPositionsRaises(positions, NextBar)
    \/ pc = "trade" /\ ShouldExecuteTrade(positions, analysis) /\ ExecuteTradeRaises(NextBar)

\* A handler that answers an exception with the report of the run so far.
ExceptReturnsReport ==
    /\ StepRaises
    /\ pc' = "report"
    /\ UNCHANGED <<last_price, price_history, messages, active_agents, created, pnls, data, i, current_capital, positions, trades_history, equity_curve,
                   drawdowns, risk_manager, analysis, last_call, report, prev_report, now,
                   runs, calls, opened>>

\* except Exception: log and raise.
Except ==
    /\ StepRaises
    /\ pc' = "failed"
    /\ UNCHANGED <<last_price, price_history, messages, active_agents, created, pnls, data, i, current_capital, positions, trades_history, equity_curve,
                   drawdowns, risk_manager, analysis, last_call, report, prev_report, now,
                   runs, calls, opened>>

ProcessOpenPositionsStep ==
    /\ pc = "process"
    /\ ~StepRaises
    /\ LET acct == ProcessOpenPositions(Account, NextBar, now)
       IN  /\ current_capital' = acct.current_capital
           /\ positions' = acct.positions
           /\ trades_history' = acct.trades_history
    /\ last_call' = [op |-> "_process_open_positions", bar |-> NextBar]
    /\ pc' = "analyze"
    /\ UNCHANGED <<last_price, price_history, messages, active_agents, created, pnls, data, i, equity_curve, drawdowns, risk_manager, analysis, report,
                   prev_report, now, runs, calls, opened>>

\* The analyzer's own RiskManager is built with it and never updated.
AnalyzeMarketStep ==
    /\ pc = "analyze"
    /\ analysis' = AnalyzeMarket(AllColumns, CurrentData, NewRiskManager, now)
    /\ pc' = "trade"
    /\ UNCHANGED <<last_price, price_history, messages, active_agents, created, pnls, data, i, current_capital, positions, trades_history, equity_curve,
                   drawdowns, risk_manager, last_call, report, prev_report, now, runs,
                   calls, opened>>

ShouldExecuteTradeResult(a) ==
    [op |-> "_should_execute_trade", analysis |-> a, open |-> Len(positions),
     result |-> ShouldExecuteTrade(positions, a)]

\* An iteration that evaluates the exits after opening the new position.
ExecuteTradeThenProcessStep ==
    /\ pc = "trade"
    /\ ShouldExecuteTrade(positions, analysis)
    /\ ~StepRaises
    /\ last_call' = ShouldExecuteTradeResult(analysis)
    /\ LET opening == [Account EXCEPT !.positions =
                          Append(positions,
                                 ExecuteTrade(analysis, NextBar, current_capital))]
           acct == ProcessOpenPositions(opening, NextBar, now)
       IN  /\ current_capital' = acct.current_capital
           /\ positions' = acct.positions
           /\ trades_history' = acct.trades_history
    /\ opened' = opened + 1
    /\ pc' = "metrics"
    /\ UNCHANGED <<last_price, price_history, messages, active_agents, created, pnls, data, i, equity_curve, drawdowns, risk_manager, analysis, report,
                   prev_report, now, runs, calls>>

ExecuteTradeStep ==
    /\ pc = "trade"
    /\ ShouldExecuteTrade(positions, analysis)
    /\ ~StepRaises
    /\ last_call' = ShouldExecuteTradeResult(analysis)
    /\ positions' = Append(positions, ExecuteTrade(analysis, NextBar, current_capital))
    /\ opened' = opened + 1
    /\ pc' = "metrics"
    /\ UNCHANGED <<last_price, price_history, messages, active_agents, created, pnls, data, i, current_capital, trades_history, equity_curve, drawdowns,
                   risk_manager, analysis, report, prev_report, now, runs, calls>>

SkipTradeStep ==
    /\ pc = "trade"
    /\ ~ShouldExecuteTrade(positions, analysis)
    /\ last_call' = ShouldExecuteTradeResult(analysis)
    /\ pc' = "metrics"
    /\ UNCHANGED <<last_price, price_history, messages, active_agents, created, pnls, data, i, current_capital, positions, trades_history, equity_curve,
                   drawdowns, risk_manager, analysis, report, prev_report, now, runs,
                   calls, opened>>

\* An update that records the capital only when it has moved.
UpdateMetricsStepOnChange ==
    /\ pc = "metrics"
    /\ equity_curve' = IF current_capital = equity_curve[Len(equity_curve)]
                       THEN equity_curve ELSE Append(equity_curve, current_capital)
    /\ drawdowns' = Append(drawdowns, CurrentDrawdown(equity_curve', current_capital))
    /\ i' = i + 1
    /\ pc' = IF i + 1 < Len(data) - 1 THEN "process" ELSE "report"
    /\ UNCHANGED <<last_price, price_history, messages, active_agents, created, pnls, data, current_capital, positions,
                   trades_history, risk_manager, analysis, last_call, report, prev_report,
                   now, runs, calls, opened>>

UpdateMetricsStep ==
    /\ pc = "metrics"
    /\ equity_curve' = Append(equity_curve, current_capital)
    /\ drawdowns' = Append(drawdowns, CurrentDrawdown(equity_curve', current_capital))
    /\ i' = i + 1
    /\ pc' = IF i + 1 < Len(data) - 1 THEN "process" ELSE "report"
    /\ UNCHANGED <<last_price, price_history, messages, active_agents, created, pnls, data, current_capital, positions, trades_history, risk_manager,
                   analysis, last_call, report, prev_report, now, runs, calls, opened>>

GenerateReportStep ==
    /\ pc = "report"
    /\ report' = GenerateBacktestReport
    /\ pc' = "done"
    /\ UNCHANGED <<last_price, price_history, messages, active_agents, created, pnls, data, i, current_capital, positions, trades_history, equity_curve,
                   drawdowns, risk_manager, analysis, last_call, prev_report, now, runs,
                   calls, opened>>

(* Direct calls of the driver's methods on a fresh driver, as its tests make. *)

DirectCall == pc = "idle" /\ runs = 0 /\ calls < MaxCalls

ExecuteTradeCall(signal, bar) ==
    /\ DirectCall
    /\ LET a == [signal |-> signal, confidence |-> <<4, 5>>]
           current_bar == [name |-> now] @@ bar
       IN  /\ positions' = Append(positions, ExecuteTrade(a, current_bar, current_capital))
           /\ last_call' = [op |-> "_execute_trade", analysis |-> a, bar |-> current_bar]
    /\ opened' = opened + 1
    /\ calls' = calls + 1
    /\ UNCHANGED <<last_price, price_history, messages, active_agents, created, pnls, pc, data, i, current_capital, trades_history, equity_curve, drawdowns,
                   risk_manager, analysis, report, prev_report, now, runs>>

ClosePositionCall(k, exit_price, reason) ==
    /\ DirectCall
    /\ k \in 1..Len(positions)
    /\ LET acct == ClosePosition(Account, positions[k], exit_price, reason, now)
       IN  /\ current_capital' = acct.current_capital
           /\ positions' = acct.positions
           /\ trades_history' = acct.trades_history
    /\ last_call' = [op |-> "_close_position", position |-> positions[k],
                     exit_price |-> exit_price, reason |-> reason]
    /\ calls' = calls + 1
    /\ UNCHANGED <<last_price, price_history, messages, active_agents, created, pnls, pc, data, i, equity_curve, drawdowns, risk_manager, analysis, report,
                   prev_report, now, runs, opened>>

ProcessOpenPositionsCall(bar) ==
    /\ DirectCall
    /\ LET current_bar == [name |-> now] @@ bar
           acct == ProcessOpenPositions(Account, current_bar, now)
       IN  /\ current_capital' = acct.current_capital
           /\ positions' = acct.positions
           /\ trades_history' = acct.trades_history
           /\ last_call' = [op |-> "_process_open_positions", bar |-> current_bar]
    /\ calls' = calls + 1
    /\ UNCHANGED <<last_price, price_history, messages, active_agents, created, pnls, pc, data, i, equity_curve, drawdowns, risk_manager, analysis, report,
                   prev_report, now, runs, opened>>

ShouldExecuteTradeCall(a) ==
    /\ DirectCall
    /\ last_call' = ShouldExecuteTradeResult(a)
    /\ calls' = calls + 1
    /\ UNCHANGED <<last_price, price_history, messages, active_agents, created, pnls, pc, data, i, current_capital, positions, trades_history, equity_curve,
                   drawdowns, risk_manager, analysis, report, prev_report, now, runs,
                   opened>>

\* Wall-clock time passes between runs.
Tick ==
    /\ pc = "done"
    /\ now < MaxClock
    /\ now' = now + 1
    /\ UNCHANGED <<last_price, price_history, messages, active_agents, created, pnls, pc, data, i, current_capital, positions, trades_history, equity_curve,
                   drawdowns, risk_manager, analysis, last_call, report, prev_report, runs,
                   calls, opened>>

Next ==
    \/ NewBacktester
    \/ \E d \in SeriesSet : RunBacktest(d)
    \/ ProcessOpenPositionsStep
    \/ AnalyzeMarketStep
    \/ ExecuteTradeStep
    \/ SkipTradeStep
    \/ UpdateMetricsStep
    \/ GenerateReportStep
    \/ Except
    \/ \E signal \in {"LONG", "SHORT"}, bar \in BarSet : ExecuteTradeCall(signal, bar)
    \/ \E k \in 1..MaxCalls, exit_price \in ExitPrices,
          reason \in {"Stop Loss", "Take Profit"} : ClosePositionCall(k, exit_price, reason)
    \/ \E bar \in BarSet : ProcessOpenPositionsCall(bar)
    \/ \E signal \in SignalInputs, confidence \in ConfidenceInputs :
          ShouldExecuteTradeCall([signal |-> signal, confidence |-> confidence])
    \/ Tick

Spec == Init /\ [][Next]_vars

(* Calls of a RiskManager's methods on a fresh RiskManager, as its tests make. *)

\* Gains and losses, in money: the tests' 50 and 20, and losses of 2, 3,
\* 15 and 16 per cent of the initial balance.
PnlInputs == {50 * Scale, -20 * Scale, -10 * Scale, -15 * Scale, -75 * Scale, -80 * Scale}

ParamInputs ==
    {[account_balance |-> 1000 * Scale, entry_price |-> 50000, stop_loss |-> 49000],
     [account_balance |-> 1000 * Scale, entry_price |-> 50000, stop_loss |-> 50000],
     [account_balance |-> 1000 * Scale, entry_price |-> 50000],
     [account_balance |-> 1000 * Scale]}

BalanceInputs == {-500 * Scale, 0, 1, 1000 * Scale, 1000000 * Scale}

PriceInputs == {<<50000, 49000>>, <<50000, 50000>>, <<49000, 50000>>, <<1, 0>>, <<0, 0>>}

RiskCall == pc = "idle" /\ runs = 0 /\ calls = 0

UpdateMetricsCall(pnl) ==
    /\ RiskCall
    /\ Len(pnls) < MaxUpdates
    /\ risk_manager' = UpdateMetrics(risk_manager, [pnl |-> pnl])
    /\ pnls' = Append(pnls, pnl)
    /\ last_call' = [op |-> "update_metrics", trade |-> [pnl |-> pnl]]
    /\ UNCHANGED <<last_price, price_history, messages, active_agents, created, pc, data, i, current_capital, positions, trades_history, equity_curve,
                   drawdowns, analysis, report, prev_report, now, runs, calls, opened>>

ValidateTradeCall(params) ==
    /\ RiskCall
    /\ last_call' = [op |-> "validate_trade", params |-> params,
                     result |-> ValidateTrade(risk_manager, params)]
    /\ UNCHANGED <<last_price, price_history, messages, active_agents, created, pc, data, i, current_capital, positions, trades_history, equity_curve,
                   drawdowns, risk_manager, analysis, report, prev_report, now, runs,
                   calls, opened, pnls>>

CalculatePositionSizeCall(account_balance, entry_price, stop_loss) ==
    /\ RiskCall
    /\ last_call' = [op |-> "calculate_position_size",
                     account_balance |-> account_balance, entry_price |-> entry_price,
                     stop_loss |-> stop_loss,
                     result |-> SizeRatio(account_balance, entry_price, stop_loss)]
    /\ UNCHANGED <<last_price, price_history, messages, active_agents, created, pc, data, i, current_capital, positions, trades_history, equity_curve,
                   drawdowns, risk_manager, analysis, report, prev_report, now, runs,
                   calls, opened, pnls>>

RiskNext ==
    \/ \E pnl \in PnlInputs : UpdateMetricsCall(pnl)
    \/ \E params \in ParamInputs : ValidateTradeCall(params)
    \/ \E account_balance \in BalanceInputs, prices \in PriceInputs :
          CalculatePositionSizeCall(account_balance, prices[1], prices[2])

RiskSpec == Init /\ [][RiskNext]_vars

(* --------------------- calls on a MarketAnalyzer ----------------------- *)

\* The two MarketAnalyzer classes: src/market_analyzer.py, and
\* src/utils/market_analyzer.py with the methods of its full copy.
AnalyzerModules == {"market_analyzer", "utils.market_analyzer"}

ColumnSets ==
    {AllColumns, {"close", "volume"}, AllColumns \ {"close"}, AllColumns \ {"volume"},
     {"open", "high", "low"}}

\* Closes that rise by one a bar: no loss in any window.
RisingHistory == [k \in 1..21 |-> Bar(99 + k, 99 + k, 99 + k, 1)]

\* Closes of zero.
ZeroHistory == [k \in 1..21 |-> ZeroBar]

\* Twenty-one closes around 100: a first one, eleven at then, nine at last.
\* <<102, 99, 101>> has the short average 1 per cent over the long one,
\* <<98, 101, 99>> 1 per cent under it.
LevelHistory(first, then, last) ==
    [k \in 1..21 |-> LET p == IF k = 1 THEN first ELSE IF k <= 12 THEN then ELSE last
                     IN  Bar(p, p, p, 1)]

\* The rows with no volume traded.
Silent(rows) == [k \in 1..Len(rows) |-> [rows[k] EXCEPT !.volume = 0]]

AnalyzerSeries ==
    SeriesSet \cup {Named(RisingHistory), Named(ZeroHistory)}
        \cup {Named(Silent(h \o <<b>>)) : h \in {UpHistory, DownHistory}, b \in BarSet}
        \cup {Named(Silent(h)) : h \in {UpHistory, DownHistory}}
        \cup {Named(LevelHistory(first, then, last)) : first \in 98..102, then \in {99, 101},
                                                         last \in 99..101}

Directions ==
    {"STRONG_UPTREND", "WEAK_UPTREND", "WEAK_DOWNTREND", "STRONG_DOWNTREND", "NEUTRAL"}

\* Trend strengths in per cent; <<0, 0>> is NaN.
StrengthInputs == {<<0, 1>>, <<1, 2>>, <<50, 1>>, <<150, 1>>, <<0, 0>>}

RsiInputs == {<<0, 1>>, <<30, 1>>, <<50, 1>>, <<70, 1>>, <<100, 1>>, <<0, 0>>}

VolumeRatioInputs == {<<0, 1>>, <<1, 1>>, <<3, 1>>, <<0, 0>>}

\* The analyzer keeps no state between calls: one call a behaviour.
AnalyzerCall == pc = "idle" /\ runs = 0 /\ calls = 0 /\ last_call = NoCall

AnalyzeMarketOf(m, columns, rows) ==
    IF m = "market_analyzer" THEN MA_AnalyzeMarket(columns, rows, now)
    ELSE AnalyzeMarket(columns, rows, NewRiskManager, now)

GenerateSignalOf(m, trend, momentum, volume_analysis) ==
    IF m = "market_analyzer" THEN MA_GenerateSignal(trend, momentum, volume_analysis)
    ELSE GenerateSignal(trend, momentum, volume_analysis)

AnalyzeMarketCall(m, columns, rows) ==
    /\ AnalyzerCall
    /\ last_call' = [op |-> "analyze_market", module |-> m, columns |-> columns,
                     rows |-> rows, result |-> AnalyzeMarketOf(m, columns, rows)]
    /\ UNCHANGED <<last_price, price_history, messages, active_agents, created, pc, data, i, current_capital, positions, trades_history, equity_curve,
                   drawdowns, risk_manager, analysis, report, prev_report, now, runs,
                   calls, opened, pnls>>

GenerateSignalCall(m, direction, strength, rsi, volume_ratio) ==
    /\ AnalyzerCall
    /\ LET trend    == [direction |-> direction, strength |-> strength]
           momentum == [rsi |-> rsi]
           volume   == [volume_ratio |-> volume_ratio]
       IN  last_call' = [op |-> "generate_signal", module |-> m, trend |-> trend,
                         momentum |-> momentum, volume_analysis |-> volume,
                         result |-> GenerateSignalOf(m, trend, momentum, volume)]
    /\ UNCHANGED <<last_price, price_history, messages, active_agents, created, pc, data, i, current_capital, positions, trades_history, equity_curve,
                   drawdowns, risk_manager, analysis, report, prev_report, now, runs,
                   calls, opened, pnls>>

AnalyzerNext ==
    \/ \E m \in AnalyzerModules, columns \in ColumnSets, rows \in AnalyzerSeries :
          AnalyzeMarketCall(m, columns, rows)
    \/ \E m \in AnalyzerModules, direction \in Directions, strength \in StrengthInputs,
          rsi \in RsiInputs, volume_ratio \in VolumeRatioInputs :
          GenerateSignalCall(m, direction, strength, rsi, volume_ratio)

AnalyzerSpec == Init /\ [][AnalyzerNext]_vars

(* ------------------ _calculate_trade_metrics, called directly ---------- *)

\* Pnl values in money: the test's win of 5 and loss of 2, and others.
TradePnls == {5 * Scale, -2 * Scale, 0, 3 * Scale, -7 * Scale}

\* Trade histories as the test writes them into trades_history.
TradeHistories ==
    UNION {[1..n -> {[pnl |-> p] : p \in TradePnls}] : n \in 0..MaxTrades}

CalculateTradeMetricsCall(history) ==
    /\ pc = "idle" /\ runs = 0 /\ calls = 0 /\ last_call = NoCall
    /\ trades_history' = history
    /\ last_call' = [op |-> "_calculate_trade_metrics",
                     result |-> CalculateTradeMetrics(history)]
    /\ UNCHANGED <<last_price, price_history, messages, active_agents, created, pc, data, i, current_capital, positions, equity_curve, drawdowns,
                   risk_manager, analysis, report, prev_report, now, runs, calls, opened,
                   pnls>>

MetricsNext == \E history \in TradeHistories : CalculateTradeMetricsCall(history)

MetricsSpec == Init /\ [][MetricsNext]_vars

(* ------------------------------ MasterAgent --------------------------- *)

\* Python's None.
None == [none |-> TRUE]

IsNone(x) == DOMAIN x = {"none"}

\* ResearchAgent(config): the constructor stores config and logs it; the
\* object's identity is its rank among the agents constructed.
ResearchAgent(config, rank) == [class |-> "ResearchAgent", config |-> config, id |-> rank]

\* What hasattr finds on a ResearchAgent, and which of it can be called.
ResearchAgentMethods ==
    {"analyze_market_sentiment", "generate_report", "start", "stop", "_setup_logging"}

ResearchAgentAttributes == ResearchAgentMethods \cup {"config", "logger"}

\* A creation that registers the agent before reading its name.
CreateAgentRegistersFirst(agents, rank, agent_type, config) ==
    IF agent_type = "research"
    THEN IF IsNone(config)
         THEN [active_agents |-> [n \in DOMAIN agents \cup {"default_research"} |->
                                     IF n = "default_research"
                                     THEN ResearchAgent(config, rank) ELSE agents[n]],
               result |-> None, created |-> rank]
         ELSE LET agent_name == IF "name" \in DOMAIN config THEN config.name
                                ELSE "default_research"
              IN  [active_agents |-> [n \in DOMAIN agents \cup {agent_name} |->
                                         IF n = agent_name
                                         THEN ResearchAgent(config, rank) ELSE agents[n]],
                   result |-> ResearchAgent(config, rank), created |-> rank]
    ELSE [active_agents |-> agents, result |-> None, created |-> rank - 1]

\* create_agent; rank is the rank of the agent it constructs, if it does.
\* config.get on None is an AttributeError, caught after the constructor
\* and before the registration.
CreateAgent(agents, rank, agent_type, config) ==
    IF agent_type = "research"
    THEN IF IsNone(config)
         THEN [active_agents |-> agents, result |-> None, created |-> rank]
         ELSE LET agent_name == IF "name" \in DOMAIN config THEN config.name
                                ELSE "default_research"
              IN  [active_agents |-> [n \in DOMAIN agents \cup {agent_name} |->
                                         IF n = agent_name
                                         THEN ResearchAgent(config, rank) ELSE agents[n]],
                   result |-> ResearchAgent(config, rank), created |-> rank]
    ELSE [active_agents |-> agents, result |-> None, created |-> rank - 1]

\* get_agent
GetAgent(agents, agent_name) ==
    IF agent_name \in DOMAIN agents THEN agents[agent_name] ELSE None

\* remove_agent
RemoveAgent(agents, agent_name) ==
    IF agent_name \in DOMAIN agents
    THEN [active_agents |-> [n \in DOMAIN agents \ {agent_name} |-> agents[n]],
          result |-> TRUE]
    ELSE [active_agents |-> agents, result |-> FALSE]

\* task_method(**task_params) on a ResearchAgent.  net is what the price
\* request does: an answer, an error status, an exception; each gives a
\* dict, as does a symbol that is not a string (the AttributeError of
\* symbol.lower() is caught in the method).  generate_report reads
\* data.get outside any try.
CallTask(agent, task_name, task_params, net) ==
    IF task_name \notin ResearchAgentMethods
    THEN [raised |-> TRUE, error |-> "TypeError: object is not callable"]
    ELSE IF task_name = "analyze_market_sentiment"
    THEN IF DOMAIN task_params # {"symbol"}
         THEN [raised |-> TRUE, error |-> "TypeError: arguments"]
         ELSE [raised |-> FALSE,
               value |-> [symbol |-> task_params.symbol,
                          kind |-> IF task_params.symbol = "None" THEN "error" ELSE net]]
    ELSE IF task_name = "generate_report"
    THEN IF DOMAIN task_params # {"data"}
         THEN [raised |-> TRUE, error |-> "TypeError: arguments"]
         ELSE IF task_params.data = "None"
         THEN [raised |-> TRUE, error |-> "AttributeError: get"]
         ELSE [raised |-> FALSE, value |-> [report |-> task_params.data]]
    ELSE IF DOMAIN task_params # {}
    THEN [raised |-> TRUE, error |-> "TypeError: arguments"]
    ELSE IF task_name = "_setup_logging"
    THEN [raised |-> FALSE, value |-> [logger |-> "research_agent"]]
    ELSE [raised |-> FALSE, value |-> None]

\* An execute_task whose exceptions leave it.
ExecuteTaskUncaught(agents, agent_name, task_name, task_params, net) ==
    LET agent == GetAgent(agents, agent_name)
    IN  IF ~IsNone(agent) /\ task_name \in ResearchAgentAttributes
        THEN LET outcome == CallTask(agent, task_name, task_params, net)
             IN  IF outcome.raised THEN outcome ELSE outcome.value
        ELSE None

\* execute_task
ExecuteTask(agents, agent_name, task_name, task_params, net) ==
    LET agent == GetAgent(agents, agent_name)
    IN  IF ~IsNone(agent) /\ task_name \in ResearchAgentAttributes
        THEN LET outcome == CallTask(agent, task_name, task_params, net)
             IN  IF outcome.raised THEN None ELSE outcome.value
        ELSE None

AgentTypes == {"research", "unknown"}

\* The tests' configs, a config without a name, the empty config, None.
ConfigInputs ==
    {[name |-> "test_research_agent", symbols |-> "bitcoin"],
     [name |-> "research_1", symbols |-> "bitcoin"],
     [symbols |-> "ethereum"],
     <<>>,
     None}

AgentNames == {"test_research_agent", "research_1", "default_research", "non_existent"}

TaskNames ==
    {"analyze_market_sentiment", "generate_report", "start", "config", "non_existent_task"}

TaskParamInputs ==
    {[symbol |-> "bitcoin"], [symbol |-> "None"], <<>>, [data |-> "dict"], [data |-> "None"]}

NetOutcomes == {"price", "api_error", "error"}

MasterCall == pc = "idle" /\ runs = 0 /\ calls = 0

CreateAgentCall(agent_type, config) ==
    /\ MasterCall
    /\ created < MaxAgents
    /\ LET made == CreateAgent(active_agents, created + 1, agent_type, config)
       IN  /\ active_agents' = made.active_agents
           /\ created' = made.created
           /\ last_call' = [op |-> "create_agent", agent_type |-> agent_type,
                            config |-> config, result |-> made.result]
    /\ UNCHANGED <<last_price, price_history, messages, pc, data, i, current_capital, positions, trades_history, equity_curve,
                   drawdowns, risk_manager, analysis, report, prev_report, now, runs,
                   calls, opened, pnls>>

GetAgentCall(agent_name) ==
    /\ MasterCall
    /\ last_call' = [op |-> "get_agent", agent_name |-> agent_name,
                     result |-> GetAgent(active_agents, agent_name)]
    /\ UNCHANGED <<last_price, price_history, messages, pc, data, i, current_capital, positions, trades_history, equity_curve,
                   drawdowns, risk_manager, analysis, report, prev_report, now, runs,
                   calls, opened, pnls, active_agents, created>>

RemoveAgentCall(agent_name) ==
    /\ MasterCall
    /\ LET removed == RemoveAgent(active_agents, agent_name)
       IN  /\ active_agents' = removed.active_agents
           /\ last_call' = [op |-> "remove_agent", agent_name |-> agent_name,
                            result |-> removed.result]
    /\ UNCHANGED <<last_price, price_history, messages, pc, data, i, current_capital, positions, trades_history, equity_curve,
                   drawdowns, risk_manager, analysis, report, prev_report, now, runs,
                   calls, opened, pnls, created>>

ExecuteTaskCall(agent_name, task_name, task_params, net) ==
    /\ MasterCall
    /\ last_call' = [op |-> "execute_task", agent_name |-> agent_name,
                     task_name |-> task_name, task_params |-> task_params,
                     result |-> ExecuteTask(active_agents, agent_name, task_name,
                                            task_params, net)]
    /\ UNCHANGED <<last_price, price_history, messages, pc, data, i, current_capital, positions, trades_history, equity_curve,
                   drawdowns, risk_manager, analysis, report, prev_report, now, runs,
                   calls, opened, pnls, active_agents, created>>

MasterNext ==
    \/ \E agent_type \in AgentTypes, config \in ConfigInputs :
          CreateAgentCall(agent_type, config)
    \/ \E agent_name \in AgentNames : GetAgentCall(agent_name)
    \/ \E agent_name \in AgentNames : RemoveAgentCall(agent_name)
    \/ \E agent_name \in AgentNames, task_name \in TaskNames,
          task_params \in TaskParamInputs, net \in NetOutcomes :
          ExecuteTaskCall(agent_name, task_name, task_params, net)

MasterSpec == Init /\ [][MasterNext]_vars

(* ------------------------------ TradingAgent -------------------------- *)

\* r / s; a zero divisor is Python's ZeroDivisionError, tested by the caller.
RatDiv(r, s) == Rat(r[1] * s[2], r[2] * s[1])

\* sum(prices[-n:]) / min(n, len(prices))
MovingAverage(prices, n) == Rat(SumSeq(LastN(prices, n)), Min2(n, Len(prices)))

\* analyze_trade_opportunity(symbol, price_data); price_data is a dict, here
\* a record with the keys it has.  The thresholds 1.02 and 0.98 are taken
\* exactly.
AnalyzeTradeOpportunity(price_data) ==
    LET current_price == IF "price" \in DOMAIN price_data THEN price_data.price ELSE 0
        prices == IF "history" \in DOMAIN price_data THEN price_data.history
                  ELSE <<current_price>>
    IN  IF current_price <= 0
        THEN [action |-> "hold", reason |-> "Invalid price data", confidence |-> <<0, 1>>]
        ELSE IF Len(prices) < 2
        THEN [action |-> "hold", reason |-> "Insufficient price history",
              confidence |-> <<0, 1>>]
        ELSE LET short_ma == MovingAverage(prices, 5)
                 long_ma  == MovingAverage(prices, 20)
                 ratio    == RatDiv(short_ma, long_ma)
             IN  IF RatGt(short_ma, RatMul(long_ma, <<51, 50>>))
                 THEN IF long_ma[1] = 0 THEN [raised |-> "ZeroDivisionError"]
                      ELSE [action |-> "buy",
                            confidence |-> PyMin(Rat(5 * (ratio[1] - ratio[2]), ratio[2]),
                                                 <<1, 1>>),
                            short_ma |-> short_ma, long_ma |-> long_ma]
                 ELSE IF RatLt(short_ma, RatMul(long_ma, <<49, 50>>))
                 THEN IF long_ma[1] = 0 THEN [raised |-> "ZeroDivisionError"]
                      ELSE [action |-> "sell",
                            confidence |-> PyMin(Rat(5 * (ratio[2] - ratio[1]), ratio[2]),
                                                 <<1, 1>>),
                            short_ma |-> short_ma, long_ma |-> long_ma]
                 ELSE [action |-> "hold", confidence |-> <<0, 1>>,
                       short_ma |-> short_ma, long_ma |-> long_ma]

CurrentPrices == {-5, 0, 100}

HistoryPrices == {0, 90, 100, 120}

\* Every history of up to MaxHistory prices, the test's history, and longer
\* ones: a steady rise, a drop after a high, histories with a negative entry.
HistoryInputs ==
    UNION {[1..n -> HistoryPrices] : n \in 0..MaxHistory}
        \cup {<<50000, 51000, 52000, 53000, 54000>>,
              [k \in 1..21 |-> 100 + k],
              <<1000, 100, 100, 100, 100, 100>>,
              <<-100, 1, 1, 1, 1, 1>>,
              <<-5, 1, 1, 1, 1, 1>>}

PriceDataInputs ==
    {[price |-> p, history |-> h] : p \in CurrentPrices, h \in HistoryInputs}
        \cup {[price |-> p] : p \in CurrentPrices}
        \cup {[history |-> h] : h \in HistoryInputs}

AnalyzeTradeOpportunityCall(price_data) ==
    /\ pc = "idle" /\ runs = 0 /\ calls = 0 /\ last_call = NoCall
    /\ last_call' = [op |-> "analyze_trade_opportunity", price_data |-> price_data,
                     result |-> AnalyzeTradeOpportunity(price_data)]
    /\ UNCHANGED <<last_price, price_history, messages, pc, data, i, current_capital, positions, trades_history, equity_curve,
                   drawdowns, risk_manager, analysis, report, prev_report, now, runs,
                   calls, opened, pnls, active_agents, created>>

TradingNext == \E price_data \in PriceDataInputs : AnalyzeTradeOpportunityCall(price_data)

TradingSpec == Init /\ [][TradingNext]_vars

(* ---------------------------- BTCPriceMonitor ------------------------- *)

\* The texts float() reads, with the number each gives as an exact ratio.
FloatTexts ==
    [x \in {"50000", "51000", "0", "0.1"} |->
        IF x = "50000" THEN <<50000, 1>>
        ELSE IF x = "51000" THEN <<51000, 1>>
        ELSE IF x = "0" THEN <<0, 1>>
        ELSE <<1, 10>>]

\* float(message.get(key, 0)): the number of a text that holds one, 0.0 for
\* a missing key, ValueError for any other text.
Float(message, key) ==
    IF key \notin DOMAIN message THEN [raised |-> FALSE, float |-> <<0, 1>>]
    ELSE IF message[key] \in DOMAIN FloatTexts
    THEN [raised |-> FALSE, float |-> FloatTexts[message[key]]]
    ELSE [raised |-> TRUE]

\* message.get('type') == 'ticker'
IsTicker(message) == "type" \in DOMAIN message /\ message.type = "ticker"

\* The entry process_message appends for a ticker message it can read.
Entry(message) ==
    [price |-> [float |-> Float(message, "price").float],
     time  |-> IF "time" \in DOMAIN message THEN message.time ELSE None,
     size  |-> [float |-> Float(message, "last_size").float]]

\* A process_message that drops the newest entry of a full history.
ProcessMessageDropsNewest(monitor, message) ==
    IF ~IsTicker(message)
    THEN [last_price |-> monitor.last_price, price_history |-> monitor.price_history,
          raised |-> "none"]
    ELSE IF Float(message, "price").raised \/ Float(message, "last_size").raised
    THEN [last_price |-> monitor.last_price, price_history |-> monitor.price_history,
          raised |-> "ValueError"]
    ELSE LET appended == Append(monitor.price_history, Entry(message))
             history  == IF Len(appended) > max_history_size
                         THEN SubSeq(appended, 1, Len(appended) - 1) ELSE appended
         IN  [last_price    |-> Entry(message).price,
              price_history |-> history,
              raised        |-> "none"]

\* process_message.  Both conversions come before the first assignment, so
\* a text that is no number leaves the monitor as it was.  After the update
\* the change in per cent divides by the previous price (ZeroDivisionError
\* when it is 0.0) and the print reads time.replace (AttributeError when the
\* message has no time).
ProcessMessage(monitor, message) ==
    IF ~IsTicker(message)
    THEN [last_price |-> monitor.last_price, price_history |-> monitor.price_history,
          raised |-> "none"]
    ELSE IF Float(message, "price").raised \/ Float(message, "last_size").raised
    THEN [last_price |-> monitor.last_price, price_history |-> monitor.price_history,
          raised |-> "ValueError"]
    ELSE LET appended == Append(monitor.price_history, Entry(message))
             history  == IF Len(appended) > max_history_size THEN Tail(appended)
                         ELSE appended
         IN  [last_price    |-> Entry(message).price,
              price_history |-> history,
              raised        |->
                  IF Len(history) > 1 /\ history[Len(history) - 1].price.float[1] = 0
                  THEN "ZeroDivisionError"
                  ELSE IF "time" \notin DOMAIN message THEN "AttributeError"
                  ELSE "none"]

\* The test's ticker message, a later one, one without a price, one
\* without a time, one whose price and one whose size is no number, and two
\* messages that are no tickers.
MessageInputs ==
    {[type |-> "ticker", price |-> "50000", time |-> "2024-10-22T00:00:00Z",
      last_size |-> "0.1"],
     [type |-> "ticker", price |-> "51000", time |-> "2024-10-22T00:00:01Z",
      last_size |-> "0.1"],
     [type |-> "ticker", time |-> "2024-10-22T00:00:02Z", last_size |-> "0.1"],
     [type |-> "ticker", price |-> "51000", last_size |-> "0"],
     [type |-> "ticker", price |-> "abc", time |-> "2024-10-22T00:00:03Z",
      last_size |-> "0.1"],
     [type |-> "ticker", price |-> "50000", time |-> "2024-10-22T00:00:04Z",
      last_size |-> "n/a"],
     [type |-> "subscriptions", price |-> "51000"],
     [price |-> "50000", time |-> "2024-10-22T00:00:05Z", last_size |-> "0.1"]}

ProcessMessageCall(message) ==
    /\ pc = "idle" /\ runs = 0 /\ calls = 0
    /\ Len(messages) < MaxMessages
    /\ LET monitor == ProcessMessage([last_price |-> last_price,
                                      price_history |-> price_history], message)
       IN  /\ last_price' = monitor.last_price
           /\ price_history' = monitor.price_history
           /\ last_call' = [op |-> "process_message", message |-> message,
                            raised |-> monitor.raised]
    /\ messages' = Append(messages, message)
    /\ UNCHANGED <<pc, data, i, current_capital, positions, trades_history, equity_curve,
                   drawdowns, risk_manager, analysis, report, prev_report, now, runs,
                   calls, opened, pnls, active_agents, created>>

MonitorNext == \E message \in MessageInputs : ProcessMessageCall(message)

MonitorSpec == Init /\ [][MonitorNext]_vars

(* ------------------------------ properties ---------------------------- *)

\* The trade records the step appends.
NewTrades == SubSeq(trades_history', Len(trades_history) + 1, Len(trades_history'))

\* The step is a call of _process_open_positions, in a run or direct.
IsProcessCall ==
    /\ last_call'.op = "_process_open_positions"
    /\ pc = "process" \/ calls' = calls + 1

\* The step is a direct call of _close_position.
IsCloseCall == last_call'.op = "_close_position" /\ calls' = calls + 1

\* The fields a trade record copies from its position.
SameTrade(r, p) ==
    /\ r.type = p.type
    /\ r.entry_price = p.entry_price
    /\ r.size = p.size
    /\ r.entry_time = p.entry_time
    /\ r.metadata = p.metadata

\* The stop and target conditions of a position on a bar: a LONG position's
\* stop is hit by the low and its target by the high, any other side inverts.
StopCondition(p, bar) ==
    IF p.type = "LONG" THEN bar.low <= p.stop_loss ELSE bar.high >= p.stop_loss

TargetCondition(p, bar) ==
    IF p.type = "LONG" THEN bar.high >= p.take_profit ELSE bar.low <= p.take_profit

\* C1: when one bar meets both the stop-loss and the take-profit condition
\* of an open position, processing that bar closes the position exactly
\* once, at its stop_loss price, with exit reason "Stop Loss"; it is never
\* closed at take_profit on such a bar.
C1_StopLossBeforeTakeProfit ==
    [][IsProcessCall =>
         \A k \in 1..Len(positions) :
            LET p == positions[k]
                bar == last_call'.bar
                closes == {j \in 1..Len(NewTrades) : SameTrade(NewTrades[j], p)}
                alike == {j \in 1..Len(positions) : SameTrade(positions[j], p)}
            IN  (StopCondition(p, bar) /\ TargetCondition(p, bar)) =>
                    /\ Cardinality(closes) = Cardinality(alike)
                    /\ \A j \in closes :
                          /\ NewTrades[j].exit_price = p.stop_loss
                          /\ NewTrades[j].exit_reason = "Stop Loss"
                    /\ \A j \in 1..Len(positions') : positions'[j] # p]_vars

\* C1: a LONG position was opened and the next call processed a bar whose
\* low is at or under its stop and whose high is at or over its target.
C1_Witness ==
    /\ pc = "idle" /\ calls = 2
    /\ last_call.op = "_process_open_positions"
    /\ Len(trades_history) = 1
    /\ LET r == trades_history[1]
       IN  /\ r.type = "LONG" /\ r.entry_price > 0
           /\ last_call.bar.low <= CalculateStopLoss("LONG", r.entry_price)
           /\ last_call.bar.high >= CalculateTakeProfit("LONG", r.entry_price)
           /\ r.exit_reason = "Stop Loss"

\* C2: every open position has side LONG or SHORT; a LONG position has
\* stop_loss < entry_price < take_profit and a SHORT position has
\* take_profit < entry_price < stop_loss (entry prices over zero).
C2_PositionSides ==
    \A k \in 1..Len(positions) :
        LET p == positions[k]
        IN  p.entry_price > 0 =>
                /\ p.type \in {"LONG", "SHORT"}
                /\ p.type = "LONG" =>
                      p.stop_loss < p.entry_price /\ p.entry_price < p.take_profit
                /\ p.type = "SHORT" =>
                      p.take_profit < p.entry_price /\ p.entry_price < p.stop_loss

\* C3: the number of open positions never exceeds max_positions, whether
\* positions are opened by a run or by calling _execute_trade directly.
C3_MaxPositions == Len(positions) <= MaxPositions

\* C4: _should_execute_trade returns true exactly when fewer than
\* max_positions positions are open, the signal is BUY or SELL and the
\* confidence is strictly over min_confidence (0.7); a run opens a position
\* in an iteration exactly when that decision was true.
C4_ShouldTradeDecision ==
    /\ last_call.op = "_should_execute_trade" =>
          (last_call.result <=>
              /\ last_call.open < MaxPositions
              /\ last_call.analysis.signal \in {"BUY", "SELL"}
              /\ last_call.analysis.confidence[2] > 0
              /\ last_call.analysis.confidence[1] * 10 >
                     7 * last_call.analysis.confidence[2])
    /\ pc = "metrics" =>
          /\ last_call.op = "_should_execute_trade"
          /\ Len(positions) = last_call.open + (IF last_call.result THEN 1 ELSE 0)

\* C4: the gate was asked about a BUY or SELL signal whose confidence is
\* exactly the minimum, with room for a position, and refused.
C4_Witness ==
    /\ last_call.op = "_should_execute_trade"
    /\ last_call.analysis.signal \in {"BUY", "SELL"}
    /\ last_call.analysis.confidence = MinConfidence
    /\ last_call.open < MaxPositions
    /\ ~last_call.result

\* C5: every close of a position reports its pnl to the driver's risk
\* controller: the controller's balance moves by what the capital moves.
C5_CloseUpdatesRiskManager ==
    [][Len(trades_history') > Len(trades_history) =>
         risk_manager'.current_balance - risk_manager.current_balance =
             current_capital' - current_capital]_vars

\* C6: a run opens no position that the risk controller's validation of the
\* trade (balance, entry price, stop) rejects.
C6_RunValidatesTrades ==
    [][(pc = "trade" /\ Len(positions') > Len(positions)) =>
         LET p == positions'[Len(positions')]
         IN  ValidateTrade(risk_manager,
                           [account_balance |-> current_capital,
                            entry_price |-> p.entry_price,
                            stop_loss |-> p.stop_loss]).is_valid]_vars

\* C7: closing a LONG position over its entry price strictly increases the
\* capital, closing it under its entry price strictly decreases it, and the
\* capital moves by (exit_price - entry_price) * size.
C7_LongClosePnl ==
    [][(IsCloseCall /\ last_call'.position.type = "LONG") =>
         LET p == last_call'.position
             exit_price == last_call'.exit_price
         IN  /\ exit_price > p.entry_price => current_capital' > current_capital
             /\ exit_price < p.entry_price => current_capital' < current_capital
             /\ current_capital' - current_capital =
                    (exit_price - p.entry_price) * p.size]_vars

\* The entry times of the open positions and of the trade records.
EntryTimes ==
    {positions[k].entry_time : k \in 1..Len(positions)} \cup
    {trades_history[k].entry_time : k \in 1..Len(trades_history)}

\* C8: every position opened since the last reset is either open or has
\* exactly one trade record, never both and never twice; a run opens at
\* most one position per bar, so the entry times tell them apart.
C8_PositionLifecycle ==
    /\ opened = Len(positions) + Len(trades_history)
    /\ \A k \in 1..Len(trades_history) :
          trades_history[k].exit_reason \in {"Stop Loss", "Take Profit"}
    /\ (runs > 0 /\ calls = 0) =>
          /\ Cardinality(EntryTimes) = opened
          /\ \A k \in 1..Len(positions), j \in 1..Len(trades_history) :
                positions[k].entry_time # trades_history[j].entry_time

\* C8: a run has closed one position and holds another one open.
C8_Witness ==
    /\ runs > 0 /\ calls = 0
    /\ Len(trades_history) >= 1
    /\ Len(positions) >= 1

\* C9: a second run over the same frame, on the same driver or a fresh one,
\* returns a report equal to the first run's.
C9_DeterministicReplay ==
    (pc = "done" /\ runs >= 2 /\ prev_report.made) => report = prev_report

\* C10: a run over an empty or single-row frame ends with a report of no
\* trades whose final capital is the initial capital.
C10_ShortFrame ==
    (pc = "done" /\ Len(data) <= 1) =>
        /\ report.made
        /\ report.overview.total_trades = 0
        /\ report.overview.final_capital = initial_capital
        /\ report.trades = <<>>

\* C10: a run over a single-row frame has returned.
C10_Witness ==
    /\ pc = "done"
    /\ Len(data) = 1
    /\ report.made
    /\ report.overview.total_trades = 0

\* The frame d with bar k+1 replaced by b.
ReplaceNext(d, k, b) == [d EXCEPT ![k + 2] = [name |-> k + 1] @@ b]

\* The frame d with every bar after bar k replaced by b.
ReplaceLater(d, k, b) ==
    [j \in 1..Len(d) |-> IF j <= k + 1 THEN d[j] ELSE [name |-> j - 1] @@ b]

\* Frames whose rows 0..k are those of the running frame and whose later
\* rows differ from it: in bar k+1 alone, or in every later bar.
AgreeingUpTo(k) ==
    {ReplaceNext(data, k, b) : b \in BarSet \cup {CorruptBar}}
        \cup {ReplaceLater(data, k, b) : b \in BarSet \cup {CorruptBar}}

\* The analysis a run over d makes at loop index k.
AnalysisAt(d, k) == AnalyzeMarket(AllColumns, CurrentDataAt(d, k), NewRiskManager, now)

\* C11 as stated: frames that agree on bars 0..i give the same
\* _should_execute_trade decision at index i whatever bar i+1 is.  The runs
\* are in the same state when iteration i begins, since the iterations
\* before it read bars 0..i only.
C11_SameDecisionAnyLaterBars ==
    (pc = "process" /\ NextBar.numeric) =>
        \A d \in {f \in AgreeingUpTo(i) : f[i + 2].numeric} :
            ShouldExecuteTrade(ProcessOpenPositions(Account, d[i + 2], now).positions,
                               AnalysisAt(d, i))
            = ShouldExecuteTrade(ProcessOpenPositions(Account, NextBar, now).positions,
                                 AnalysisAt(data, i))

\* C11 amended: frames that agree on bars 0..i give the same signal and
\* confidence at index i whatever their later bars are, and the same
\* _should_execute_trade decision when they also agree on bar i+1.
C11_NoLookAhead ==
    pc = "trade" =>
        \A d \in AgreeingUpTo(i) :
            LET other == AnalysisAt(d, i) IN
            /\ other.signal = analysis.signal
            /\ other.confidence = analysis.confidence
            /\ d[i + 2] = NextBar =>
                  ShouldExecuteTrade(positions, other)
                  = ShouldExecuteTrade(positions, analysis)

\* C11: a BUY or SELL signal was computed at an index where another frame
\* agrees on bars 0..i and has a different bar i+1.
C11_Witness ==
    /\ pc = "trade"
    /\ analysis.signal \in {"BUY", "SELL"}
    /\ \E d \in AgreeingUpTo(i) : d[i + 2] # NextBar

\* C12: in a run, exits are evaluated only in the exit step of an iteration,
\* before its opening step, and only for positions entered on an earlier
\* bar than the one evaluated; a position opened in the iteration is entered
\* on the iteration's bar i+1 and no exit is evaluated in that step, so its
\* first exit check is against the bar after its entry bar.
C12_ExitsBeforeEntries ==
    [][/\ (pc \notin {"idle", "done"} /\ Len(trades_history') > Len(trades_history)) =>
             /\ pc = "process"
             /\ \A j \in 1..Len(NewTrades) : NewTrades[j].entry_time < NextBar.name
       /\ pc = "process" =>
             \A k \in 1..Len(positions) : positions[k].entry_time < NextBar.name
       /\ (pc = "trade" /\ Len(positions') > Len(positions)) =>
             /\ positions'[Len(positions')].entry_time = NextBar.name
             /\ trades_history' = trades_history
             /\ i' = i]_vars

\* C12: a position entered on the previous bar was closed by its first exit
\* check, on a bar that another position is then entered on.
C12_Witness ==
    /\ pc = "metrics"
    /\ Len(trades_history) >= 1
    /\ trades_history[Len(trades_history)].entry_time = NextBar.name - 1
    /\ Len(positions) >= 1
    /\ positions[Len(positions)].entry_time = NextBar.name

\* C13: when a step of the loop raises, run_backtest raises to its caller:
\* the run is then failed, it has returned no report, and it makes none.
C13_ExceptionReRaised ==
    [][/\ StepRaises => (pc' = "failed" /\ ~report'.made)
       /\ pc = "failed" => (pc' # "report" /\ (pc' = "failed" => ~report'.made))]_vars

\* C13: a run has failed after it had closed or opened a position.
C13_Witness ==
    /\ pc = "failed"
    /\ Len(trades_history) + Len(positions) >= 1
    /\ ~report.made

\* C14: every open position has size > 0.
C14_PositiveSize == \A k \in 1..Len(positions) : positions[k].size > 0

\* The circuit breakers on the RiskManager's state.
DrawdownReached ==
    (risk_manager.peak_balance - risk_manager.current_balance) * 100
        >= MaxDrawdown * risk_manager.peak_balance

DailyLossReached ==
    risk_manager.daily_losses * 100 >= risk_manager.peak_balance * MaxDailyLoss

IsValidateCall == last_call.op = "validate_trade"

\* C15: whenever the drawdown is at or over max_drawdown, validate_trade
\* answers is_valid = False with reason "Maximum drawdown reached", whatever
\* the daily losses and the parameters are.
C15_DrawdownFirst ==
    (IsValidateCall /\ DrawdownReached) =>
        /\ ~last_call.result.is_valid
        /\ last_call.result.reason = "Maximum drawdown reached"

\* C15: a complete trade was validated with both the drawdown limit and the
\* daily-loss limit breached.
C15_Witness ==
    /\ IsValidateCall
    /\ DrawdownReached /\ DailyLossReached
    /\ RequiredParams \subseteq DOMAIN last_call.params
    /\ last_call.result.reason = "Maximum drawdown reached"

\* C16: with the drawdown under max_drawdown and the daily losses at or
\* over peak_balance * max_daily_loss / 100, validate_trade answers
\* is_valid = False with reason "Daily loss limit reached", whatever the
\* parameters are.
C16_DailyLossLimit ==
    (IsValidateCall /\ ~DrawdownReached /\ DailyLossReached) =>
        /\ ~last_call.result.is_valid
        /\ last_call.result.reason = "Daily loss limit reached"

\* C16: a complete trade of positive size was validated with the daily
\* losses exactly at the limit and refused.
C16_Witness ==
    /\ IsValidateCall
    /\ ~DrawdownReached
    /\ risk_manager.daily_losses * 100 = risk_manager.peak_balance * MaxDailyLoss
    /\ RequiredParams \subseteq DOMAIN last_call.params
    /\ last_call.params.entry_price # last_call.params.stop_loss
    /\ last_call.result.reason = "Daily loss limit reached"

\* C17: with neither breaker tripped, validate_trade answers is_valid =
\* False, "Missing required parameters" when the balance, the entry price or
\* the stop is missing, and is_valid = True with a suggested size over 0 when
\* all three are there and the size is positive; the reason is that of the
\* first check that fails, in the order drawdown, daily losses, parameters,
\* size.
C17_ValidateOrder ==
    IsValidateCall =>
        LET params == last_call.params
            result == last_call.result
        IN  IF DrawdownReached THEN result.reason = "Maximum drawdown reached"
            ELSE IF DailyLossReached THEN result.reason = "Daily loss limit reached"
            ELSE IF \E key \in RequiredParams : key \notin DOMAIN params
            THEN ~result.is_valid /\ result.reason = "Missing required parameters"
            ELSE IF params.account_balance > 0 /\ params.entry_price # params.stop_loss
            THEN result.is_valid /\ result.suggested_size[1] > 0
            ELSE ~result.is_valid /\ result.reason = "Invalid position size calculated"

\* C17: after an update, with neither breaker tripped, a trade without its
\* stop was validated and refused for its missing parameter.
C17_Witness ==
    /\ IsValidateCall
    /\ pnls # <<>>
    /\ ~DrawdownReached /\ ~DailyLossReached
    /\ DOMAIN last_call.params = {"account_balance", "entry_price"}
    /\ last_call.result.reason = "Missing required parameters"

\* The losses among the pnl values, as amounts.
Losses(log) == [k \in 1..Len(log) |-> IF log[k] < 0 THEN -log[k] ELSE 0]

\* The balance at the start and after each update.
Balances(log) ==
    [k \in 1..Len(log) + 1 |-> InitialBalance * Scale + SumSeq(SubSeq(log, 1, k - 1))]

\* C18: after any sequence of update_metrics calls, current_balance is the
\* initial balance plus the sum of the pnl values, daily_losses is the sum
\* of |pnl| over the losses, peak_balance is the largest balance reached so
\* far; no call lowers peak_balance or daily_losses.
C18_UpdateMetrics ==
    [][/\ risk_manager'.current_balance = InitialBalance * Scale + SumSeq(pnls')
       /\ risk_manager'.daily_losses = SumSeq(Losses(pnls'))
       /\ risk_manager'.peak_balance = MaxSeq(Balances(pnls'))
       /\ risk_manager'.peak_balance >= risk_manager.peak_balance
       /\ risk_manager'.daily_losses >= risk_manager.daily_losses]_vars

\* C18: after a gain and a loss the balance is under a peak that is over
\* the initial balance.
C18_Witness ==
    /\ Len(pnls) >= 2
    /\ risk_manager.peak_balance > InitialBalance * Scale
    /\ risk_manager.current_balance < risk_manager.peak_balance
    /\ risk_manager.daily_losses > 0

IsSizeCall == last_call.op = "calculate_position_size"

\* C19: calculate_position_size returns 0 when the entry price equals the
\* stop, for any balance.
C19_ZeroPriceRisk ==
    (IsSizeCall /\ last_call.entry_price = last_call.stop_loss) =>
        last_call.result[1] = 0 /\ last_call.result[2] # 0

\* C19: the size was asked for a positive balance and a stop equal to a
\* positive entry price.
C19_Witness ==
    /\ IsSizeCall
    /\ last_call.account_balance > 0
    /\ last_call.entry_price > 0
    /\ last_call.entry_price = last_call.stop_loss
    /\ last_call.result[1] = 0

\* C20: for a positive balance and an entry price different from the stop,
\* calculate_position_size returns a size over 0 and not over
\* max_position_size.
C20_SizeRange ==
    (IsSizeCall /\ last_call.account_balance > 0
                /\ last_call.entry_price # last_call.stop_loss) =>
        /\ last_call.result[2] > 0
        /\ last_call.result[1] > 0
        /\ \/ last_call.result = <<MaxPositionSize * Scale, 1>>
           \/ last_call.result[1] \div last_call.result[2] < MaxPositionSize * Scale

\* C20: the size was asked for a balance large enough for the cap to
\* answer.
C20_Witness ==
    /\ IsSizeCall
    /\ last_call.account_balance > 0
    /\ last_call.entry_price # last_call.stop_loss
    /\ last_call.result = <<MaxPositionSize * Scale, 1>>

IsAnalyzeCall == last_call.op = "analyze_market"

\* C21: on a frame without the close or the volume column analyze_market
\* returns ERROR with confidence 0 and a reason naming the missing column,
\* whatever the number of rows is.
C21_MissingColumn ==
    (IsAnalyzeCall /\ ~({"close", "volume"} \subseteq last_call.columns)) =>
        /\ last_call.result.signal = "ERROR"
        /\ last_call.result.confidence = <<0, 1>>
        /\ last_call.result.reason =
               IF "close" \notin last_call.columns THEN "Missing required column: close"
               ELSE "Missing required column: volume"

\* C21: a frame with a column missing and fewer rows than min_data_points
\* was analysed and the answer was ERROR.
C21_Witness ==
    /\ IsAnalyzeCall
    /\ last_call.module = "market_analyzer"
    /\ "volume" \notin last_call.columns
    /\ Len(last_call.rows) < MinDataPoints
    /\ last_call.result.signal = "ERROR"

\* C22: on a frame with both required columns and fewer rows than
\* min_data_points analyze_market returns NEUTRAL with confidence 0.
C22_InsufficientData ==
    (IsAnalyzeCall /\ {"close", "volume"} \subseteq last_call.columns
                   /\ Len(last_call.rows) < MinDataPoints) =>
        /\ last_call.result.signal = "NEUTRAL"
        /\ last_call.result.confidence = <<0, 1>>

\* C22: a frame of fewer rows than min_data_points, one of them not
\* numeric, was analysed and the answer was NEUTRAL.
C22_Witness ==
    /\ IsAnalyzeCall
    /\ last_call.module = "market_analyzer"
    /\ {"close", "volume"} \subseteq last_call.columns
    /\ Len(last_call.rows) < MinDataPoints
    /\ \E k \in 1..Len(last_call.rows) : ~last_call.rows[k].numeric
    /\ last_call.result.signal = "NEUTRAL"

\* The analysis ran to its end: the result carries the indicators.
IsFullAnalysis == IsAnalyzeCall /\ "momentum" \in DOMAIN last_call.result

\* No close of the trailing RSI window is under the close before it.
NoLosses(rows) ==
    \A k \in 1..(Len(rows) - 1) :
        k >= Len(rows) - RsiPeriod => rows[k + 1].close >= rows[k].close

\* C23: the RSI of an analysis is in [0, 100], and it is 100 when the
\* trailing RSI window holds no loss.
C23_RsiRange ==
    IsFullAnalysis =>
        LET rsi == last_call.result.momentum.rsi
        IN  /\ ~IsNaN(rsi)
            /\ ~RatLt(rsi, <<0, 1>>) /\ ~RatGt(rsi, <<100, 1>>)
            /\ NoLosses(last_call.rows) => rsi = <<100, 1>>

IsSignalCall == last_call.op = "generate_signal"

\* The signal the trend and the RSI call for.
SignalFor(direction, rsi) ==
    IF IsUptrend(direction) /\ RatLt(rsi, <<70, 1>>) THEN "BUY"
    ELSE IF IsDowntrend(direction) /\ RatGt(rsi, <<30, 1>>) THEN "SELL"
    ELSE "NEUTRAL"

\* C24: generate_signal answers BUY exactly on an uptrend with RSI under
\* 70, SELL exactly on a downtrend with RSI over 30, NEUTRAL otherwise; the
\* signal of a full analysis is the one its trend and RSI call for.
C24_SignalSynthesis ==
    /\ IsSignalCall =>
           last_call.result.signal =
               SignalFor(last_call.trend.direction, last_call.momentum.rsi)
    /\ IsFullAnalysis =>
           last_call.result.signal =
               SignalFor(last_call.result.trend.direction, last_call.result.momentum.rsi)

\* C24: generate_signal answered NEUTRAL on an uptrend with RSI at 70.
C24_Witness ==
    /\ IsSignalCall
    /\ IsUptrend(last_call.trend.direction)
    /\ last_call.momentum.rsi = <<70, 1>>
    /\ last_call.result.signal = "NEUTRAL"

\* C25: the confidence of every analysis is in [0, 1], and it is 0 for
\* NEUTRAL and for ERROR.
C25_ConfidenceRange ==
    IsAnalyzeCall =>
        LET confidence == last_call.result.confidence
        IN  /\ ~IsNaN(confidence)
            /\ ~RatLt(confidence, <<0, 1>>) /\ ~RatGt(confidence, <<1, 1>>)
            /\ last_call.result.signal \in {"NEUTRAL", "ERROR"} => confidence = <<0, 1>>

\* C26: on a frame that passed the column and length tests analyze_market
\* returns a result: ERROR with confidence 0 and a reason when an indicator
\* raised, and no exception leaves it.
C26_NoExceptionLeaves ==
    (IsAnalyzeCall /\ {"close", "volume"} \subseteq last_call.columns
                   /\ Len(last_call.rows) >= MinDataPoints) =>
        /\ "signal" \in DOMAIN last_call.result
        /\ (\E k \in 1..Len(last_call.rows) : ~last_call.rows[k].numeric) =>
               /\ last_call.result.signal = "ERROR"
               /\ last_call.result.confidence = <<0, 1>>
               /\ last_call.result.reason = "Analysis error"

\* C26: a frame of enough rows, one of them not numeric, was analysed and
\* the answer was ERROR.
C26_Witness ==
    /\ IsAnalyzeCall
    /\ last_call.module = "market_analyzer"
    /\ {"close", "volume"} \subseteq last_call.columns
    /\ Len(last_call.rows) >= MinDataPoints
    /\ \E k \in 1..Len(last_call.rows) : ~last_call.rows[k].numeric
    /\ last_call.result.signal = "ERROR"

IsMetricsCall == last_call.op = "_calculate_trade_metrics"

\* C27: over a trade history win_rate is the share of trades with pnl > 0,
\* avg_win and avg_loss are the sums of the positive and of the negative
\* pnl values over their numbers, largest_win and largest_loss are the
\* largest and the smallest pnl of all trades; all five are 0 on an empty
\* history, and a win of 5 with a loss of 2 gives 0.5, 5, -2, 5, -2.
C27_TradeMetrics ==
    IsMetricsCall =>
        LET m == last_call.result
            n == Len(trades_history)
            wins   == {k \in 1..n : trades_history[k].pnl > 0}
            losses == {k \in 1..n : trades_history[k].pnl < 0}
        IN  /\ n = 0 =>
                  /\ m.win_rate = <<0, 1>> /\ m.avg_win = <<0, 1>> /\ m.avg_loss = <<0, 1>>
                  /\ m.largest_win = 0 /\ m.largest_loss = 0
            /\ n > 0 =>
                  /\ m.win_rate[1] * n = Cardinality(wins) * m.win_rate[2]
                  /\ m.avg_win[1] * Cardinality(wins)
                         = m.avg_win[2] * SumSeq([k \in 1..n |->
                               IF k \in wins THEN trades_history[k].pnl ELSE 0])
                  /\ m.avg_loss[1] * Cardinality(losses)
                         = m.avg_loss[2] * SumSeq([k \in 1..n |->
                               IF k \in losses THEN trades_history[k].pnl ELSE 0])
                  /\ wins = {} => m.avg_win = <<0, 1>>
                  /\ losses = {} => m.avg_loss = <<0, 1>>
                  /\ \E k \in 1..n : m.largest_win = trades_history[k].pnl
                  /\ \A k \in 1..n : m.largest_win >= trades_history[k].pnl
                  /\ \E k \in 1..n : m.largest_loss = trades_history[k].pnl
                  /\ \A k \in 1..n : m.largest_loss <= trades_history[k].pnl
            /\ trades_history = <<[pnl |-> 5 * Scale], [pnl |-> -2 * Scale]>> =>
                  m = [win_rate |-> <<1, 2>>, avg_win |-> <<5 * Scale, 1>>,
                       avg_loss |-> <<-2 * Scale, 1>>, largest_win |-> 5 * Scale,
                       largest_loss |-> -2 * Scale]

\* C27: the metrics of a history of losing trades only were computed, and
\* its largest win is a loss.
C27_Witness ==
    /\ IsMetricsCall
    /\ Len(trades_history) >= 2
    /\ \A k \in 1..Len(trades_history) : trades_history[k].pnl < 0
    /\ last_call.result.largest_win < 0
    /\ last_call.result.win_rate = <<0, 1>>

\* C28: create_agent('research', config) registers the new agent under
\* config['name'], where get_agent finds it; an unknown type or a None
\* config gives None and the registry as it was; remove_agent gives True and
\* deletes the entry of a registered name, False and the registry as it was
\* otherwise; get_agent gives None for a name that is not registered.
C28_Registry ==
    [][/\ last_call'.op = "create_agent" =>
              LET call == last_call'
              IN  /\ (call.agent_type = "research" /\ ~IsNone(call.config)
                         /\ "name" \in DOMAIN call.config) =>
                         /\ ~IsNone(call.result)
                         /\ call.result.class = "ResearchAgent"
                         /\ call.result.config = call.config
                         /\ \A n \in DOMAIN active_agents : active_agents[n] # call.result
                         /\ DOMAIN active_agents' = DOMAIN active_agents \cup {call.config.name}
                         /\ GetAgent(active_agents', call.config.name) = call.result
                         /\ \A n \in DOMAIN active_agents \ {call.config.name} :
                                active_agents'[n] = active_agents[n]
                  /\ (call.agent_type # "research" \/ IsNone(call.config)) =>
                         IsNone(call.result) /\ active_agents' = active_agents
       /\ last_call'.op = "remove_agent" =>
              LET call == last_call'
              IN  IF call.agent_name \in DOMAIN active_agents
                  THEN /\ call.result = TRUE
                       /\ DOMAIN active_agents' = DOMAIN active_agents \ {call.agent_name}
                       /\ \A n \in DOMAIN active_agents' : active_agents'[n] = active_agents[n]
                       /\ IsNone(GetAgent(active_agents', call.agent_name))
                  ELSE call.result = FALSE /\ active_agents' = active_agents
       /\ last_call'.op = "get_agent" =>
              LET call == last_call'
              IN  /\ active_agents' = active_agents
                  /\ IF call.agent_name \in DOMAIN active_agents
                     THEN call.result = active_agents[call.agent_name]
                     ELSE IsNone(call.result)]_vars

\* C28: an agent was created under a name that held an older agent, and
\* the registry holds the new one.
C28_Witness ==
    /\ last_call.op = "create_agent"
    /\ ~IsNone(last_call.result)
    /\ last_call.result.id >= 2
    /\ "name" \in DOMAIN last_call.config
    /\ active_agents[last_call.config.name] = last_call.result
    /\ Cardinality(DOMAIN active_agents) = 1

\* C29: execute_task raises nothing and leaves the registry as it was; it
\* returns None for a name that is not registered, for a task name the agent
\* has no attribute of, and for a task call that fails (a missing required
\* parameter), and the task's result otherwise.
C29_ExecuteTask ==
    [][last_call'.op = "execute_task" =>
          LET call == last_call'
              registered == call.agent_name \in DOMAIN active_agents
          IN  /\ active_agents' = active_agents
              /\ "raised" \notin DOMAIN call.result
              /\ ~registered => IsNone(call.result)
              /\ call.task_name \notin ResearchAgentAttributes => IsNone(call.result)
              /\ (call.task_name = "analyze_market_sentiment"
                     /\ "symbol" \notin DOMAIN call.task_params) => IsNone(call.result)
              /\ call.task_name = "config" => IsNone(call.result)
              /\ (registered /\ call.task_name = "analyze_market_sentiment"
                     /\ DOMAIN call.task_params = {"symbol"}) =>
                     /\ ~IsNone(call.result)
                     /\ call.result.symbol = call.task_params.symbol
              /\ (registered /\ call.task_name = "generate_report"
                     /\ call.task_params = [data |-> "dict"]) =>
                     call.result = [report |-> "dict"]]_vars

\* C29: a task of a registered agent was called without its required
\* parameter and execute_task returned None.
C29_Witness ==
    /\ last_call.op = "execute_task"
    /\ last_call.agent_name \in DOMAIN active_agents
    /\ last_call.task_name = "analyze_market_sentiment"
    /\ last_call.task_params = <<>>
    /\ IsNone(last_call.result)

C31_BreakerStaysTripped ==
    [][(/\ IsValidateCall
        /\ last_call.result.reason = "Daily loss limit reached"
        /\ last_call'.op = "update_metrics") =>
           ~ValidateTrade(risk_manager', last_call.params).is_valid]_vars

\* C32: at every _update_metrics the running peak max(equity_curve) does
\* not fall and is at least the capital, the drawdown appended is >= 0 and
\* is 0 exactly when the capital is at the peak; the report's max_drawdown is
\* the largest recorded drawdown, 0 when none was recorded.
C32_HighWaterMark ==
    [][/\ pc = "metrics" =>
              LET peak_capital == MaxSeq(equity_curve')
                  drawdown == drawdowns'[Len(drawdowns')]
              IN  /\ peak_capital >= MaxSeq(equity_curve)
                  /\ peak_capital >= current_capital'
                  /\ ~IsNaN(drawdown) /\ ~RatLt(drawdown, <<0, 1>>)
                  /\ drawdown = <<0, 1>> <=> current_capital' = peak_capital
       /\ pc = "report" =>
              LET max_drawdown == report'.risk_metrics.max_drawdown
              IN  IF drawdowns = <<>> THEN max_drawdown = <<0, 1>>
                  ELSE /\ \E k \in 1..Len(drawdowns) : drawdowns[k] = max_drawdown
                       /\ \A k \in 1..Len(drawdowns) : ~RatGt(drawdowns[k], max_drawdown)]_vars

\* C32: a run reported a max_drawdown above 0 after a losing trade, and
\* its curve has entries at the peak and under it.
C32_Witness ==
    /\ pc = "done" /\ report.made
    /\ RatGt(report.risk_metrics.max_drawdown, <<0, 1>>)
    /\ \E k \in 1..Len(drawdowns) : drawdowns[k] = <<0, 1>>
    /\ current_capital < MaxSeq(equity_curve)

\* The step is the reset of a run or a new driver.
IsReset == runs' # runs \/ (pc' = "idle" /\ pc # "idle")

\* C33: apart from the reset at the start of a run, every step leaves the
\* trade records it finds in place and unchanged and adds new ones only at
\* the end, one per position closed; every record _process_open_positions
\* appends has exit reason "Stop Loss" with the position's stop_loss as
\* exit_price, or "Take Profit" with its take_profit.
C33_AppendOnlyHistory ==
    [][/\ ~IsReset =>
              /\ Len(trades_history') >= Len(trades_history)
              /\ SubSeq(trades_history', 1, Len(trades_history)) = trades_history
              /\ Len(NewTrades) > 0 => Len(NewTrades) = Len(positions) - Len(positions')
       /\ IsProcessCall =>
              \A j \in 1..Len(NewTrades) :
                 LET r == NewTrades[j]
                 IN  \E k \in 1..Len(positions) :
                        LET p == positions[k]
                        IN  /\ SameTrade(r, p)
                            /\ \/ r.exit_reason = "Stop Loss" /\ r.exit_price = p.stop_loss
                               \/ r.exit_reason = "Take Profit"
                                     /\ r.exit_price = p.take_profit]_vars

\* C33: in a run a position was closed at its target, its record is in the
\* history, and the run went on to open the next position.
C33_Witness ==
    /\ runs >= 1 /\ pc = "metrics"
    /\ Len(trades_history) = 1
    /\ trades_history[1].exit_reason = "Take Profit"
    /\ trades_history[1].exit_price =
           CalculateTakeProfit(trades_history[1].type, trades_history[1].entry_price)
    /\ trades_history[1].exit_price # trades_history[1].entry_price
    /\ positions # <<>>

\* C34: on a frame with close and volume, at least min_data_points rows
\* and fewer rows than long_ma_period, analyze_market of
\* src/market_analyzer.py gives trend NEUTRAL with strength 0 and the signal
\* NEUTRAL with confidence 0.
C34_NoLongAverage ==
    (/\ IsAnalyzeCall
     /\ last_call.module = "market_analyzer"
     /\ {"close", "volume"} \subseteq last_call.columns
     /\ Len(last_call.rows) >= MinDataPoints
     /\ Len(last_call.rows) < LongMaPeriod) =>
        /\ last_call.result.signal = "NEUTRAL"
        /\ last_call.result.trend.direction = "NEUTRAL"
        /\ last_call.result.trend.strength = <<0, 1>>
        /\ last_call.result.confidence = <<0, 1>>

\* The signed strength of the claim: (short_ma - long_ma) / long_ma * 100.
SignedStrength(rows) ==
    LET short_sum == SumSeq(LastN(Closes(rows), ShortMaPeriod))
        long_sum  == SumSeq(LastN(Closes(rows), LongMaPeriod))
    IN  Rat((short_sum * LongMaPeriod - long_sum * ShortMaPeriod) * 100,
            long_sum * ShortMaPeriod)

\* C35: with both moving averages computed and the signed strength s a
\* number, s > 1 gives STRONG_UPTREND, 0 < s <= 1 WEAK_UPTREND, -1 < s <= 0
\* WEAK_DOWNTREND and s <= -1 STRONG_DOWNTREND, in both MarketAnalyzer
\* classes.
C35_TrendClassification ==
    (/\ IsAnalyzeCall
     /\ "trend" \in DOMAIN last_call.result
     /\ Len(last_call.rows) >= LongMaPeriod
     /\ ~IsNaN(SignedStrength(last_call.rows))) =>
        LET s == SignedStrength(last_call.rows)
            direction == last_call.result.trend.direction
        IN  /\ RatGt(s, <<1, 1>>) => direction = "STRONG_UPTREND"
            /\ (RatGt(s, <<0, 1>>) /\ ~RatGt(s, <<1, 1>>)) => direction = "WEAK_UPTREND"
            /\ (RatGt(s, <<-1, 1>>) /\ ~RatGt(s, <<0, 1>>)) => direction = "WEAK_DOWNTREND"
            /\ ~RatGt(s, <<-1, 1>>) => direction = "STRONG_DOWNTREND"
            /\ s = <<0, 1>> => direction = "WEAK_DOWNTREND"
            /\ s = <<1, 1>> => direction = "WEAK_UPTREND"

\* C35: a frame whose short average is exactly 1 per cent over the long
\* one was analysed by src/market_analyzer.py as a WEAK_UPTREND.
C35_Witness ==
    /\ IsAnalyzeCall
    /\ last_call.module = "market_analyzer"
    /\ "trend" \in DOMAIN last_call.result
    /\ Len(last_call.rows) >= LongMaPeriod
    /\ SignedStrength(last_call.rows) = <<1, 1>>
    /\ last_call.result.trend.direction = "WEAK_UPTREND"

\* C36: after every step current_capital is initial_capital plus the pnl
\* of all trade records; a step that opens a position leaves the capital as
\* it was; the report's final_capital and total_trades are those of the
\* closed trades, and the positions open at the end of the loop stay open.
C36_CapitalConservation ==
    [][/\ current_capital' = initial_capital + SumSeq(Pnls(trades_history'))
       /\ Len(positions') > Len(positions) => current_capital' = current_capital
       /\ pc = "report" =>
              /\ report'.overview.final_capital
                     = initial_capital + SumSeq(Pnls(trades_history))
              /\ report'.overview.total_trades = Len(trades_history)
              /\ positions' = positions
              /\ trades_history' = trades_history]_vars

\* C36: a run closed one trade with a pnl other than 0 and ended with a
\* position still open; its report counts one trade.
C36_Witness ==
    /\ pc = "done" /\ report.made
    /\ positions # <<>>
    /\ Len(trades_history) = 1
    /\ trades_history[1].pnl # 0
    /\ report.overview.total_trades = 1
    /\ report.overview.final_capital = initial_capital + trades_history[1].pnl

\* C37: the equity curve starts with initial_capital and has one entry
\* more than the iterations made, the drawdowns have one entry an iteration;
\* a run that returns has made max(len(data) - 1, 0) iterations and the last
\* entry of its equity curve is the final capital of its report.
C37_PerBarBookkeeping ==
    /\ equity_curve[1] = initial_capital
    /\ Len(equity_curve) = i + 1
    /\ Len(drawdowns) = i
    /\ pc = "done" =>
           /\ i = Max2(Len(data) - 1, 0)
           /\ report.equity_curve = equity_curve
           /\ report.drawdowns = drawdowns
           /\ equity_curve[Len(equity_curve)] = report.overview.final_capital

\* C37: a run over 23 rows returned after 22 iterations in which the
\* capital moved.
C37_Witness ==
    /\ pc = "done" /\ report.made
    /\ Len(data) = 23
    /\ Len(report.equity_curve) = 23 /\ Len(report.drawdowns) = 22
    /\ report.overview.final_capital # initial_capital

\* C38: every trade record of a run comes from a BUY or SELL position; one
\* closed for "Stop Loss" has pnl <= 0 and one closed for "Take Profit" has
\* pnl >= 0, strictly so when its size is over 0.
C38_ExitSignMatchesPnl ==
    runs >= 1 =>
        \A k \in 1..Len(trades_history) :
           LET r == trades_history[k]
           IN  /\ r.type \in {"BUY", "SELL"}
               /\ r.exit_reason = "Stop Loss" =>
                      /\ r.exit_price = CalculateStopLoss(r.type, r.entry_price)
                      /\ r.pnl <= 0
                      /\ r.size > 0 => r.pnl < 0
               /\ r.exit_reason = "Take Profit" =>
                      /\ r.exit_price = CalculateTakeProfit(r.type, r.entry_price)
                      /\ r.pnl >= 0
                      /\ r.size > 0 => r.pnl > 0

\* C38: a run closed a BUY position of a size over 0 at its stop with a
\* loss.
C38_Witness ==
    /\ runs >= 1
    /\ \E k \in 1..Len(trades_history) :
          /\ trades_history[k].type = "BUY"
          /\ trades_history[k].size > 0
          /\ trades_history[k].exit_reason = "Stop Loss"
          /\ trades_history[k].pnl < 0

\* C39: a pass of _process_open_positions closes every position whose
\* stop or target the bar hits, each once, and keeps the others in their
\* order, however many it closes; in a run only the trade step of an
\* iteration opens a position, and it opens one.
C39_EveryPositionEvaluated ==
    [][/\ IsProcessCall =>
              LET bar == last_call'.bar
                  Hit(p) == StopCondition(p, bar) \/ TargetCondition(p, bar)
                  Kept(p) == ~Hit(p)
              IN  /\ positions' = SelectSeq(positions, Kept)
                  /\ Len(NewTrades) = Len(SelectSeq(positions, Hit))
                  /\ \A k \in 1..Len(positions') : ~Hit(positions'[k])
                  /\ \A k \in 1..Len(positions) :
                        LET p == positions[k]
                            alike == {j \in 1..Len(positions) : positions[j] = p}
                            closes == {j \in 1..Len(NewTrades) : SameTrade(NewTrades[j], p)}
                        IN  Hit(p) => Cardinality(closes) = Cardinality(alike)
       /\ (runs >= 1 /\ runs' = runs /\ Len(positions') > Len(positions)) =>
              /\ pc = "trade" /\ pc' = "metrics"
              /\ Len(positions') = Len(positions) + 1
              /\ opened' <= i + 1]_vars

\* C39: two positions were open and one pass over a bar that hits both
\* closed both.
C39_Witness ==
    /\ pc = "idle" /\ last_call.op = "_process_open_positions"
    /\ Len(trades_history) = 2
    /\ positions = <<>>
    /\ trades_history[1].entry_price # trades_history[2].entry_price

\* The ticker messages, and those of them whose price and size float()
\* can read.
Tickers == SelectSeq(messages, IsTicker)

Readable(message) ==
    IsTicker(message) /\ ~Float(message, "price").raised
        /\ ~Float(message, "last_size").raised

Accepted == SelectSeq(messages, Readable)

\* C40 as stated: price_history holds the most recent ticker messages, at
\* most max_history_size of them, and last_price is the price of the most
\* recent ticker message.
C40_MostRecentTickers ==
    /\ Len(price_history) = Min2(Len(Tickers), max_history_size)
    /\ (Tickers # <<>> /\ ~Float(Tickers[Len(Tickers)], "price").raised) =>
           last_price = [float |-> Float(Tickers[Len(Tickers)], "price").float]

\* C40, amended: price_history holds the entries of the most recent ticker
\* messages whose price and last_size float() can read, in arrival order, at
\* most max_history_size of them; last_price is the price of the most
\* recent of these messages, None when there is none; any other message
\* leaves both as they were.
C40_MostRecentReadableTickers ==
    /\ Len(price_history) <= max_history_size
    /\ price_history = LastN([k \in 1..Len(Accepted) |-> Entry(Accepted[k])],
                             max_history_size)
    /\ last_price = IF Accepted = <<>> THEN None
                    ELSE Entry(Accepted[Len(Accepted)]).price

\* C40: more ticker messages than max_history_size were read, the oldest
\* entry is gone, and a message that is no ticker came last.
C40_Witness ==
    /\ Len(Accepted) > max_history_size
    /\ Len(price_history) = max_history_size
    /\ price_history[1] = Entry(Accepted[Len(Accepted) - max_history_size + 1])
    /\ price_history[1] # Entry(Accepted[1])
    /\ ~IsTicker(messages[Len(messages)])
    /\ last_price = price_history[max_history_size].price

====
